---- MODULE Spec2Model ----
(***************************************************************************)
(* Model of the session store of aholic-desktop                            *)
(* (src/src/main/services/session-store.ts): the bounded task runner       *)
(* pLimit, the summary cache getCachedSessionSummary, and the public       *)
(* operations built on them.                                               *)
(*                                                                         *)
(* JavaScript runs one continuation at a time: the code between two        *)
(* awaits is one atomic step.  Every action below is one such step: the    *)
(* completion of an awaited operation together with the continuation that  *)
(* it resumes.  Arrays are 0-based in the source and 1-based here: slot i  *)
(* of the model is index i-1 of the source, and currentIndex counts the    *)
(* claimed indices in both.                                                *)
(***************************************************************************)
EXTENDS Integers, Sequences, FiniteSets, TLC

\* ------------------------------------------------------------------------
\* Bounds of the model
\* ------------------------------------------------------------------------
MaxTasks == 3
MaxConc == 3

\* Results a task may resolve with.
Values == {"a", "b"}
\* A result slot that was never written (new Array(n) leaves holes).
Empty == "empty"

Min(a, b) == IF a < b THEN a ELSE b

\* ------------------------------------------------------------------------
\* pLimit (session-store.ts 16-35): the state of one call
\* ------------------------------------------------------------------------
\* n            tasks.length
\* currentIndex the shared counter
\* results      the results array
\* widx         per worker: the slot whose task it awaits, 0 once it returned
\*              or threw
\* status       the promise returned by pLimit: pending, resolved, rejected
\* tstat        per task: unstarted, running, done, failed
\* claims       per task: how many times tasks[i]() was invoked
\* writes       per slot: how many times results[i] was assigned

\* const workers = Array(Math.min(concurrency, tasks.length))
NumWorkersAll(n, concurrency) == n
NumWorkers(n, concurrency) == Min(concurrency, n)

\* const index = currentIndex++ ; tasks[index]()   (worker w claims a task)
ClaimNoIncrement(s, w) ==
  LET index == s.currentIndex + 1 IN
  [s EXCEPT !.widx[w] = index,
            !.tstat[index] = "running",
            !.claims[index] = @ + 1]
Claim(s, w) ==
  LET index == s.currentIndex + 1 IN
  [s EXCEPT !.currentIndex = @ + 1,
            !.widx[w] = index,
            !.tstat[index] = "running",
            !.claims[index] = @ + 1]

\* while (currentIndex < tasks.length) { claim } ; otherwise the worker returns
\* (The alternatives return after one task, or stop one task short.)
WorkerStopsAfterOne(s, w) == [s EXCEPT !.widx[w] = 0]
WorkerLoopSkipsLast(s, w) ==
  IF s.currentIndex < s.n - 1 THEN Claim(s, w) ELSE [s EXCEPT !.widx[w] = 0]
WorkerLoop(s, w) ==
  IF s.currentIndex < s.n THEN Claim(s, w) ELSE [s EXCEPT !.widx[w] = 0]

\* results[index] = <awaited value>
StoreInCompletionOrder(s, index, v) ==
  LET next == Cardinality({i \in DOMAIN s.writes : s.writes[i] > 0}) + 1 IN
  [s EXCEPT !.results[next] = v,
            !.writes[next] = @ + 1,
            !.tstat[index] = "done"]
Store(s, index, v) ==
  [s EXCEPT !.results[index] = v,
            !.writes[index] = @ + 1,
            !.tstat[index] = "done"]

\* await Promise.all(workers): resolves once every worker has returned,
\* rejects as soon as one worker throws; a settled promise stays settled.
Settle(s, threw) ==
  IF s.status # "pending" THEN s
  ELSE IF threw THEN [s EXCEPT !.status = "rejected"]
  ELSE IF \A w \in DOMAIN s.widx : s.widx[w] = 0 /\ ~s.wthrew[w]
       THEN [s EXCEPT !.status = "resolved"]
  ELSE s

RECURSIVE StartWorkers(_, _)
\* .map(() => worker()): each worker runs synchronously up to its first await
StartWorkers(s, w) ==
  IF w > Len(s.widx) THEN s
  ELSE StartWorkers(WorkerLoop(s, w), w + 1)

\* The synchronous part of a call pLimit(tasks, concurrency).
PLCall(n, concurrency) ==
  LET k == NumWorkers(n, concurrency)
      s0 == [n            |-> n,
             currentIndex |-> 0,
             results      |-> [i \in 1..n |-> Empty],
             widx         |-> [w \in 1..k |-> 0],
             wthrew       |-> [w \in 1..k |-> FALSE],
             status       |-> "pending",
             tstat        |-> [i \in 1..n |-> "unstarted"],
             claims       |-> [i \in 1..n |-> 0],
             writes       |-> [i \in 1..n |-> 0]]
      s1 == StartWorkers(s0, 1)
  IN  IF k = 0 THEN [s1 EXCEPT !.status = "resolved"] ELSE s1

\* The task awaited by worker w resolves with v: line 26 stores it and the
\* loop of line 24 goes on.
PLResolve(s, w, v) ==
  LET s1 == Store(s, s.widx[w], v)
      s2 == WorkerLoop(s1, w)
  IN  Settle(s2, FALSE)

\* The task awaited by worker w rejects: the await of line 26 throws out of
\* worker(), whose promise rejects.
PLReject(s, w) ==
  LET s1 == [s EXCEPT !.tstat[s.widx[w]] = "failed",
                      !.widx[w] = 0,
                      !.wthrew[w] = TRUE]
  IN  Settle(s1, TRUE)

PLIdle == [n |-> 0, currentIndex |-> 0, results |-> << >>, widx |-> << >>,
           wthrew |-> << >>, status |-> "idle", tstat |-> << >>,
           claims |-> << >>, writes |-> << >>]

InFlight(s) == {i \in DOMAIN s.tstat : s.tstat[i] = "running"}

VARIABLES
  inp,     \* the arguments of the pLimit call: tasks and concurrency
  seen,    \* the task that completed last, and whether one completed
           \* before a task of a smaller index (history)
  pl,      \* the state of the pLimit call
  fs,      \* the file system: per path, does it exist, mtime, content, mode
  cache,   \* sessionSummaryCache: per path, its entry or NoEntry
  calls,   \* the getCachedSessionSummary calls, running or returned
  hist,    \* per path, what the last undisturbed call returned (history)
  used,    \* how many calls were started and how many file events happened
  origin,  \* per path, the content its cache entry was computed from and
           \* the mtime the file had when that content was read (history)
  gas,     \* the state of one getAllSessions() call
  disk,    \* per project directory, the number of its session files
  sess,    \* the state of one getSession() call
  prs,     \* a transcript file and what the three parsers made of it
  pth,     \* a disk of directories, an encoded name and its decoding
  lst,     \* a project directory and a listSessionFiles() call on it
  loc      \* a transcript's place on disk and the projectEncoded read off it

plVars == <<inp, pl, seen>>
cacheVars == <<fs, cache, calls, hist, used, origin>>
storeVars == <<gas, disk, sess>>
pureVars == <<prs, pth, lst, loc>>
vars == <<inp, pl, seen, fs, cache, calls, hist, used, origin, gas, disk,
          sess, prs, pth, lst, loc>>

\* What a call returns instead of a summary or a session: JavaScript's null.
Null == [isNull |-> TRUE]
\* startTime/endTime before any timestamp was seen (null in the source).
NoTime == -1
\* new Date(undefined).getTime(): not a number.
NaN == -2
\* JavaScript's null where a string is expected (gitBranch, model).
NoString == "null"

\* ------------------------------------------------------------------------
\* Transcript entries and content blocks (session-types.ts 12-124)
\* ------------------------------------------------------------------------
\* A text is the sequence of its characters.
Whitespace == {" ", "\n", "\t"}

\* Content blocks, all with the same fields; agentId is set on a tool_use
\* block by getSession only.
TextBlock(text) ==
  [type |-> "text", text |-> text, id |-> "", name |-> "",
   tool_use_id |-> "", agentId |-> ""]
ThinkingBlock(text) ==
  [type |-> "thinking", text |-> text, id |-> "", name |-> "",
   tool_use_id |-> "", agentId |-> ""]
ToolUseBlock(id, name) ==
  [type |-> "tool_use", text |-> << >>, id |-> id, name |-> name,
   tool_use_id |-> "", agentId |-> ""]
ToolResultBlock(toolUseId, text) ==
  [type |-> "tool_result", text |-> text, id |-> "", name |-> "",
   tool_use_id |-> toolUseId, agentId |-> ""]

isTextBlock(b) == b.type = "text"
isThinkingBlock(b) == b.type = "thinking"
isToolUseBlock(b) == b.type = "tool_use"
isToolResultBlock(b) == b.type = "tool_result"

\* message.content: a string or an array of blocks.
StringContent(text) == [isString |-> TRUE, text |-> text, blocks |-> << >>]
BlockContent(blocks) == [isString |-> FALSE, text |-> << >>, blocks |-> blocks]

\* One JSONL line of a transcript. json tells what JSON.parse makes of the
\* line: an object, the value null, or a SyntaxError ("invalid"); ts is
\* new Date(entry.timestamp).getTime(), epoch millis or NaN; message tells
\* whether the entry has a message payload, whose content and model are the
\* fields of these names; cwd, version and gitBranch are the entry's own,
\* "" for a missing one.
Snapshot ==
  [json |-> "object", type |-> "file-history-snapshot", ts |-> 0,
   content |-> StringContent(<< >>), agentId |-> "", parentToolUseID |-> "",
   message |-> TRUE, cwd |-> "/w", version |-> "1", gitBranch |-> "main",
   model |-> ""]
ProgressEntry(agentId, parentToolUseID) ==
  [json |-> "object", type |-> "progress", ts |-> 0,
   content |-> StringContent(<< >>),
   agentId |-> agentId, parentToolUseID |-> parentToolUseID,
   message |-> TRUE, cwd |-> "/w", version |-> "1", gitBranch |-> "main",
   model |-> ""]
UserEntry(t, content) ==
  [json |-> "object", type |-> "user", ts |-> t, content |-> content,
   agentId |-> "", parentToolUseID |-> "",
   message |-> TRUE, cwd |-> "/w", version |-> "1", gitBranch |-> "main",
   model |-> ""]
AsstEntry(t, content) ==
  [json |-> "object", type |-> "assistant", ts |-> t, content |-> content,
   agentId |-> "", parentToolUseID |-> "",
   message |-> TRUE, cwd |-> "/w", version |-> "1", gitBranch |-> "main",
   model |-> ""]
\* A JSON object whose type is none of the four tags, e.g. {"type":"summary"}.
OtherEntry ==
  [json |-> "object", type |-> "summary", ts |-> 0,
   content |-> StringContent(<< >>), agentId |-> "", parentToolUseID |-> "",
   message |-> TRUE, cwd |-> "/w", version |-> "1", gitBranch |-> "main",
   model |-> ""]
\* The line `null`: valid JSON, and entry.type raises a TypeError.
NullLine ==
  [json |-> "null", type |-> "", ts |-> 0,
   content |-> StringContent(<< >>), agentId |-> "", parentToolUseID |-> "",
   message |-> TRUE, cwd |-> "/w", version |-> "1", gitBranch |-> "main",
   model |-> ""]
\* A line that is not JSON, e.g. a truncated object: JSON.parse raises.
BrokenLine ==
  [json |-> "invalid", type |-> "", ts |-> 0,
   content |-> StringContent(<< >>), agentId |-> "", parentToolUseID |-> "",
   message |-> TRUE, cwd |-> "/w", version |-> "1", gitBranch |-> "main",
   model |-> ""]

Hello == << "h", "i" >>
Progress == ProgressEntry("x", "t1")
UserMsg(t) == UserEntry(t, StringContent(Hello))
AsstMsg(t) == AsstEntry(t, StringContent(Hello))

isUserMessage(e) == e.type = "user"
isAssistantMessage(e) == e.type = "assistant"
isFileHistorySnapshot(e) == e.type = "file-history-snapshot"
\* typeof data.agentId === 'string' holds for every progress entry built by
\* ProgressEntry.
isProgressMessage(e) == e.type = "progress"

\* ------------------------------------------------------------------------
\* processMessage and its extractors (lines 149-200)
\* ------------------------------------------------------------------------
RECURSIVE Trim(_)
\* String.prototype.trim
Trim(text) ==
  IF text = << >> THEN << >>
  ELSE IF Head(text) \in Whitespace THEN Trim(Tail(text))
  ELSE IF text[Len(text)] \in Whitespace
       THEN Trim(SubSeq(text, 1, Len(text) - 1))
  ELSE text

RECURSIVE JoinLines(_)
\* texts.join('\n')
JoinLines(texts) ==
  IF texts = << >> THEN << >>
  ELSE IF Len(texts) = 1 THEN texts[1]
  ELSE texts[1] \o << "\n" >> \o JoinLines(Tail(texts))

extractTextContent(content) ==
  IF content.isString THEN content.text
  ELSE LET textBlocks == SelectSeq(content.blocks, isTextBlock)
       IN  JoinLines([i \in 1..Len(textBlocks) |-> textBlocks[i].text])

extractThinkingBlocks(content) ==
  IF content.isString THEN << >> ELSE SelectSeq(content.blocks, isThinkingBlock)

extractToolUseBlocks(content) ==
  IF content.isString THEN << >> ELSE SelectSeq(content.blocks, isToolUseBlock)

\* results[block.tool_use_id] = block, in block order: the last block of an
\* id wins.
extractToolResults(content) ==
  LET blocks == IF content.isString THEN << >> ELSE content.blocks
      at(id) == {i \in 1..Len(blocks) :
                   isToolResultBlock(blocks[i]) /\ blocks[i].tool_use_id = id}
      ids == {blocks[i].tool_use_id :
                i \in {j \in 1..Len(blocks) : isToolResultBlock(blocks[j])}}
  IN  [id \in ids |->
         blocks[CHOOSE i \in at(id) : \A j \in at(id) : j <= i]]

processMessage(entry) ==
  [role |-> entry.type,
   timestamp |-> entry.ts,
   textContent |-> extractTextContent(entry.content),
   thinkingBlocks |-> extractThinkingBlocks(entry.content),
   toolUseBlocks |-> extractToolUseBlocks(entry.content),
   toolResults |-> extractToolResults(entry.content)]

\* ------------------------------------------------------------------------
\* The streaming parsers (lines 202-323 and 532-593) on a file that exists
\* and can be read
\* ------------------------------------------------------------------------
\* The if of lines 278-282 and 566-570. (The alternative pushes every
\* processed message.)
RetainsEverything(processed) == TRUE
Retained(processed) ==
  \/ Trim(processed.textContent) # << >>
  \/ Len(processed.toolUseBlocks) > 0
  \/ Len(processed.thinkingBlocks) > 0

\* messages after the loop: the processed user/assistant entries that pass
\* the filter, in file order.
RetainedMessages(entries) ==
  LET msgs == SelectSeq(entries,
                LAMBDA e : isUserMessage(e) \/ isAssistantMessage(e))
      processed == [i \in 1..Len(msgs) |-> processMessage(msgs[i])]
  IN  SelectSeq(processed, Retained)

\* pendingToolResults after the loop (lines 272-276, 560-564): for every
\* tool-use id, the tool_result of the last user entry that carries one.
PendingToolResults(entries) ==
  LET carries(i, id) ==
        /\ isUserMessage(entries[i])
        /\ id \in DOMAIN extractToolResults(entries[i].content)
      ids == UNION {DOMAIN extractToolResults(entries[i].content) :
                      i \in {j \in 1..Len(entries) : isUserMessage(entries[j])}}
  IN  [id \in ids |->
         LET last == CHOOSE i \in 1..Len(entries) :
                       /\ carries(i, id)
                       /\ \A j \in 1..Len(entries) : carries(j, id) => j <= i
         IN  extractToolResults(entries[last].content)[id]]

\* The backfill of lines 295-302 and 583-590. (The alternative leaves the
\* messages as the loop pushed them.)
BackfillNothing(messages, pending) == messages
Backfill(messages, pending) ==
  [m \in 1..Len(messages) |->
     LET msg == messages[m]
         useIds == {msg.toolUseBlocks[k].id : k \in 1..Len(msg.toolUseBlocks)}
         found == useIds \cap DOMAIN pending
     IN  [msg EXCEPT !.toolResults =
            [id \in DOMAIN msg.toolResults \cup found |->
               IF id \in found THEN pending[id] ELSE msg.toolResults[id]]]]

\* agentLinks after the loop (lines 247-252): for every agent id, the parent
\* tool-use id of the last progress entry that names both.
AgentLinks(entries) ==
  LET links(i) ==
        /\ isProgressMessage(entries[i])
        /\ entries[i].agentId # ""
        /\ entries[i].parentToolUseID # ""
      ids == {entries[i].agentId : i \in {j \in 1..Len(entries) : links(j)}}
  IN  [a \in ids |->
         LET last == CHOOSE i \in 1..Len(entries) :
                       /\ links(i) /\ entries[i].agentId = a
                       /\ \A j \in 1..Len(entries) :
                            (links(j) /\ entries[j].agentId = a) => j <= i
         IN  entries[last].parentToolUseID]

\* startTime and endTime after the loop (lines 262-268).
Timestamps(entries) ==
  {entries[i].ts : i \in {j \in 1..Len(entries) :
      isUserMessage(entries[j]) \/ isAssistantMessage(entries[j])}}
MinOf(S) == CHOOSE x \in S : \A y \in S : x <= y
MaxOf(S) == CHOOSE x \in S : \A y \in S : y <= x

\* The property names that an object literal inherits from
\* Object.prototype, among the names the model uses as keys.
ObjectPrototype == {"constructor"}
\* The inherited value of such a name: a function, which is truthy and equal
\* to no string.
Inherited == "[Function: Object]"
\* obj[key] of a missing key: undefined.
Undefined == ""

\* obj[key] on a plain object created by {}: an own property, or else one
\* inherited from Object.prototype.
GetKey(obj, key) ==
  IF key \in DOMAIN obj THEN obj[key]
  ELSE IF key \in ObjectPrototype THEN Inherited
  ELSE Undefined

\* obj[key] = value on a plain object.
SetKey(obj, key, value) ==
  [k \in DOMAIN obj \cup {key} |-> IF k = key THEN value ELSE obj[k]]

\* for (const [key, value] of Object.entries(more)) obj[key] = value
\* (The alternative assigns nothing.)
SetNoKeys(obj, more) == obj
SetKeys(obj, more) ==
  [k \in DOMAIN obj \cup DOMAIN more |->
     IF k \in DOMAIN more THEN more[k] ELSE obj[k]]

\* The statements of the inner try raise on this line: JSON.parse throws a
\* SyntaxError (lines 241, 367, 551), or the line is `null` and reading
\* entry.type throws a TypeError in the first type guard.
Raises(line) == line.json # "object"

\* The catch of lines 286-288, 401-403 and 574-576 only logs: the for await
\* goes on with the line after line i. (The alternative ends the loop.)
AfterCatchEndsLoop(lines, i) == Len(lines) + 1
AfterCatch(lines, i) == i + 1

\* a < b on numbers: false when either is NaN.
Less(a, b) == a # NaN /\ b # NaN /\ a < b

\* if (v === null || timestamp < v) v = timestamp, and the same with >.
Earlier(v, timestamp) ==
  IF v = NoTime \/ Less(timestamp, v) THEN timestamp ELSE v
Later(v, timestamp) ==
  IF v = NoTime \/ Less(v, timestamp) THEN timestamp ELSE v

\* entry.message.content and entry.message.model raise a TypeError on an
\* entry without message payload (lines 188, 382, 389).
NoPayload(entry) == ~entry.message

\* value || null
OrNull(value) == IF value = "" THEN NoString ELSE value

\* if (!metadataExtracted) { metadataExtracted = true; cwd = entry.cwd;
\* version = entry.version; gitBranch = entry.gitBranch || null }
\* (The alternative takes the metadata of every entry.)
ExtractMetadataAlways(acc, entry) ==
  [acc EXCEPT !.metadataExtracted = TRUE, !.cwd = entry.cwd,
              !.version = entry.version,
              !.gitBranch = OrNull(entry.gitBranch)]
ExtractMetadata(acc, entry) ==
  IF acc.metadataExtracted THEN acc
  ELSE [acc EXCEPT !.metadataExtracted = TRUE, !.cwd = entry.cwd,
                   !.version = entry.version,
                   !.gitBranch = OrNull(entry.gitBranch)]

\* The variables of parseSessionFileWithAgentLinks before the first line
\* (lines 209-228).
ParseStart ==
  [messages |-> << >>, agentLinks |-> << >>, pendingToolResults |-> << >>,
   startTime |-> NoTime, endTime |-> NoTime,
   metadataExtracted |-> FALSE, cwd |-> "", version |-> "",
   gitBranch |-> NoString]

\* Lines 243-285 on an entry that JSON.parse returned.
SessionEntry(acc, entry) ==
  IF isFileHistorySnapshot(entry) THEN acc
  ELSE IF isProgressMessage(entry) THEN
    IF entry.agentId # "" /\ entry.parentToolUseID # ""
    THEN [acc EXCEPT !.agentLinks =
            SetKey(@, entry.agentId, entry.parentToolUseID)]
    ELSE acc
  ELSE IF isUserMessage(entry) \/ isAssistantMessage(entry) THEN
    LET meta == ExtractMetadata(acc, entry)
        timed == [meta EXCEPT !.startTime = Earlier(@, entry.ts),
                              !.endTime = Later(@, entry.ts)]
        processed == processMessage(entry)
    IN  \* processMessage raises at line 270, after lines 254-268 ran
        IF NoPayload(entry) THEN timed
        ELSE [timed EXCEPT
                !.pendingToolResults =
                   IF isUserMessage(entry)
                   THEN SetKeys(@, processed.toolResults) ELSE @,
                !.messages =
                   IF Retained(processed) THEN Append(@, processed) ELSE @]
  ELSE acc

RECURSIVE SessionLoop(_, _, _)
\* for await (const line of rl) { try {...} catch {...} }  (lines 237-289):
\* acc holds the variables after the first i-1 lines.
SessionLoop(lines, i, acc) ==
  IF i > Len(lines) THEN acc
  ELSE IF Raises(lines[i]) THEN SessionLoop(lines, AfterCatch(lines, i), acc)
  ELSE SessionLoop(lines, i + 1, SessionEntry(acc, lines[i]))

\* parseSessionFileWithAgentLinks(filePath) on a file that exists and can be
\* read.
\* Lines 304-322: no session when no message was pushed. (The alternative
\* returns a session whatever messages holds.)
SessionEvenIfEmpty(filePath, acc, messages) ==
  [filePath |-> filePath, gitBranch |-> acc.gitBranch, cwd |-> acc.cwd,
   version |-> acc.version, startTime |-> acc.startTime,
   endTime |-> acc.endTime, messages |-> messages]
SessionOrNull(filePath, acc, messages) ==
  IF Len(messages) = 0 THEN Null
  ELSE [filePath |-> filePath, gitBranch |-> acc.gitBranch, cwd |-> acc.cwd,
        version |-> acc.version, startTime |-> acc.startTime,
        endTime |-> acc.endTime, messages |-> messages]

parseSessionFileWithAgentLinks(filePath, lines) ==
  LET acc == SessionLoop(lines, 1, ParseStart)
      messages == Backfill(acc.messages, acc.pendingToolResults)
  IN  [session |-> SessionOrNull(filePath, acc, messages),
       agentLinks |-> acc.agentLinks]

\* Lines 553-573 on an entry that JSON.parse returned.
SubagentEntry(acc, entry) ==
  IF isFileHistorySnapshot(entry) \/ isProgressMessage(entry) THEN acc
  ELSE IF isUserMessage(entry) \/ isAssistantMessage(entry) THEN
    LET processed == processMessage(entry) IN
    \* processMessage raises at line 558, before anything is assigned
    IF NoPayload(entry) THEN acc
    ELSE [acc EXCEPT
            !.pendingToolResults =
               IF isUserMessage(entry) THEN SetKeys(@, processed.toolResults)
               ELSE @,
            !.messages =
               IF Retained(processed) THEN Append(@, processed) ELSE @]
  ELSE acc

RECURSIVE SubagentFileLoop(_, _, _)
\* The for await of lines 547-577.
SubagentFileLoop(lines, i, acc) ==
  IF i > Len(lines) THEN acc
  ELSE IF Raises(lines[i])
       THEN SubagentFileLoop(lines, AfterCatch(lines, i), acc)
  ELSE SubagentFileLoop(lines, i + 1, SubagentEntry(acc, lines[i]))

\* parseSubagentFile(filePath) on a file that exists and can be read.
parseSubagentFile(lines) ==
  LET acc == SubagentFileLoop(lines, 1,
               [messages |-> << >>, pendingToolResults |-> << >>])
  IN  Backfill(acc.messages, acc.pendingToolResults)

\* ------------------------------------------------------------------------
\* Transcript files and the summary traversal
\* ------------------------------------------------------------------------



\* The transcripts a file may hold: one without any user/assistant entry,
\* and two with different messages.
Contents ==
  { << Snapshot, Progress >>,
    << UserMsg(5), Snapshot >>,
    << Snapshot, AsstMsg(7), UserMsg(3), Progress >> }

\* How many characters of the first user message a summary keeps.
FirstMessageChars == 200
\* str.slice(0, n)
Slice(str, n) == SubSeq(str, 1, IF Len(str) < n THEN Len(str) ELSE n)

\* The variables of getSessionSummary before the first line (lines 339-347).
SummaryStart ==
  [messageCount |-> 0, startTime |-> NoTime, endTime |-> NoTime,
   metadataExtracted |-> FALSE, gitBranch |-> NoString,
   firstMessage |-> << >>, model |-> NoString]

\* Lines 374-399 on a user or assistant entry: each statement works on what
\* the one before left, and a TypeError raised by entry.message leaves the
\* assignments made before it in place.
SummaryCounted(acc, entry) ==
  LET counted == [acc EXCEPT !.messageCount = @ + 1]
      meta == IF counted.metadataExtracted THEN counted
              ELSE [counted EXCEPT !.metadataExtracted = TRUE,
                                   !.gitBranch = OrNull(entry.gitBranch)]
      \* if (!firstMessage && isUserMessage(entry))
      readsContent == meta.firstMessage = << >> /\ isUserMessage(entry)
      first == IF readsContent
               THEN [meta EXCEPT !.firstMessage =
                       IF entry.content.isString
                       THEN Slice(entry.content.text, FirstMessageChars)
                       ELSE Slice(extractTextContent(entry.content),
                                  FirstMessageChars)]
               ELSE meta
      \* if (!model && isAssistantMessage(entry) && entry.message.model)
      readsModel == first.model \in {NoString, ""} /\ isAssistantMessage(entry)
      named == IF readsModel /\ entry.model # ""
               THEN [first EXCEPT !.model = entry.model]
               ELSE first
      timed == [named EXCEPT !.startTime = Earlier(@, entry.ts),
                             !.endTime = Later(@, entry.ts)]
  IN  IF readsContent /\ NoPayload(entry) THEN meta
      ELSE IF readsModel /\ NoPayload(entry) THEN first
      ELSE timed

\* Lines 369-400 on an entry that JSON.parse returned. (The alternative
\* counts every entry but the snapshots.)
SummaryEntryCountsProgress(acc, entry) ==
  IF isFileHistorySnapshot(entry) THEN acc
  ELSE SummaryCounted(acc, entry)
SummaryEntry(acc, entry) ==
  IF isFileHistorySnapshot(entry) THEN acc
  ELSE IF isUserMessage(entry) \/ isAssistantMessage(entry) THEN
    SummaryCounted(acc, entry)
  ELSE acc

RECURSIVE SummaryLoop(_, _, _)
\* for await (const line of rl) { ... }  (lines 363-404): acc holds the
\* variables after the first i-1 lines.
SummaryLoop(lines, i, acc) ==
  IF i > Len(lines) THEN acc
  ELSE IF Raises(lines[i]) THEN SummaryLoop(lines, AfterCatch(lines, i), acc)
  ELSE SummaryLoop(lines, i + 1, SummaryEntry(acc, lines[i]))

\* getSessionSummary(filePath) on a file that exists and can be read
\* (lines 333-426): null when no user/assistant entry was counted.
getSessionSummary(filePath, lines) ==
  LET acc == SummaryLoop(lines, 1, SummaryStart)
  IN  IF acc.messageCount = 0 THEN Null
      ELSE [filePath |-> filePath,
            firstMessage |-> acc.firstMessage,
            messageCount |-> acc.messageCount,
            startTime |-> acc.startTime,
            endTime |-> acc.endTime,
            gitBranch |-> acc.gitBranch,
            model |-> acc.model]

\* ------------------------------------------------------------------------
\* The summary cache (lines 37-69)
\* ------------------------------------------------------------------------
MaxCalls == 2
MaxFsEvents == 2

\* The transcript files the cache is asked about.
SessionFiles == {"abc.jsonl", "def.jsonl"}
Paths == SessionFiles
\* The agents whose transcripts may lie in the project directory,
\* in the order in which readdir lists their files.
AgentOrder == << "x", "y", "constructor" >>
AgentIds == {AgentOrder[i] : i \in 1..Len(AgentOrder)}
AgentFileOf == [id \in AgentIds |-> "agent-" \o id \o ".jsonl"]
AgentFiles == {AgentFileOf[id] : id \in AgentIds}
AllFiles == SessionFiles \cup AgentFiles
MaxSlots == 2
\* The calls that may be running at the same time.
Calls == 1..MaxSlots

\* sessionSummaryCache.get(filePath) === undefined
NoEntry == [isEntry |-> FALSE]
\* The outcome of a call that raised instead of returning.
Thrown == [isThrown |-> TRUE]

\* sessionSummaryCache.set(filePath, { summary, mtime })
CacheSetNoMtime(c, filePath, summary, mtime) ==
  [c EXCEPT ![filePath] = [summary |-> summary, mtime |-> 0]]
CacheSet(c, filePath, summary, mtime) ==
  [c EXCEPT ![filePath] = [summary |-> summary, mtime |-> mtime]]

\* sessionSummaryCache.delete(filePath)
CacheDelete(c, filePath) == [c EXCEPT ![filePath] = NoEntry]

\* if (cached && cached.mtime === mtime). (The alternatives take an entry
\* of an earlier mtime, or of any mtime, for a hit.)
CacheHitNotNewer(c, filePath, mtime) ==
  c[filePath] # NoEntry /\ c[filePath].mtime <= mtime
CacheHitAnyMtime(c, filePath, mtime) == c[filePath] # NoEntry
CacheHit(c, filePath, mtime) ==
  c[filePath] # NoEntry /\ c[filePath].mtime = mtime

\* catch { sessionSummaryCache.delete(filePath); return null }: the new
\* cache and the value the call returns.
CatchKeepsEntry(c, filePath) == [cache |-> c, result |-> Null]
Catch(c, filePath) == [cache |-> CacheDelete(c, filePath), result |-> Null]

\* No cache entry, so no content it was computed from.
NoOrigin == [ver |-> 0, content |-> << >>]

\* History bookkeeping: `read` is what the entry of p in the new cache c was
\* computed from; it is forgotten when p has no entry there.
Origin(c, p, read) ==
  [origin EXCEPT ![p] = IF c[p] = NoEntry THEN NoOrigin ELSE read]

\* A call that has not been made.
IdleCall == [pc |-> "idle", path |-> "", mtime |-> 0, pending |-> "",
             summary |-> Null, read |-> [ver |-> 0, content |-> << >>],
             result |-> Null, branch |-> "",
             prev |-> [kind |-> "none"], dirty |-> FALSE, solo |-> FALSE]

NoHistory == [kind |-> "none"]

InFlightOn(p) == {c \in Calls : calls[c].pc \in {"stat", "statted", "read"}
                                /\ calls[c].path = p}

\* History bookkeeping: a file event on p disturbs the calls running on p.
Disturb(p) ==
  [c \in Calls |-> IF c \in InFlightOn(p)
                   THEN [calls[c] EXCEPT !.dirty = TRUE] ELSE calls[c]]

\* History bookkeeping: the content of p has changed since the last call.
Touched(p) ==
  [q \in Paths |-> IF q = p /\ hist[q].kind = "ret"
                   THEN [hist[q] EXCEPT !.modified = TRUE] ELSE hist[q]]

\* The call c returns `result` through `branch`.
Return(c, result, branch) ==
  [calls EXCEPT ![c].pc = "done", ![c].result = result, ![c].branch = branch,
                ![c].mtime = 0, ![c].pending = "",
                ![c].summary = Null, ![c].read = NoOrigin]

Remember(c, result) ==
  [hist EXCEPT ![calls[c].path] =
     IF calls[c].solo /\ ~calls[c].dirty
     THEN [kind |-> "ret", result |-> result, modified |-> FALSE]
     ELSE NoHistory]

\* No getSession() call has been made. primary is the content of the
\* primary transcript as the call read it, listed the agent files that
\* findSubagentFiles returned (history).
SessIdle == [pc |-> "idle", session |-> Null, agentLinks |-> << >>,
             todo |-> << >>, subagents |-> << >>, result |-> Null,
             primary |-> << >>, listed |-> << >>]

\* No getAllSessions() call has been made.
GasIdle == [phase |-> "idle", np |-> 0, outer |-> PLIdle,
            task |-> << >>, inner |-> << >>, groups |-> << >>]

StoreIdle == gas = GasIdle /\ disk = << >> /\ sess = SessIdle

CacheIdle ==
  /\ fs = [p \in AllFiles |-> [exists |-> FALSE, mtime |-> 0,
                            content |-> << >>, readable |-> TRUE]]
  /\ cache = [p \in Paths |-> NoEntry]
  /\ calls = [c \in Calls |-> IdleCall]
  /\ hist = [p \in Paths |-> NoHistory]
  /\ used = [calls |-> 0, events |-> 0]
  /\ origin = [p \in Paths |-> NoOrigin]

NothingSeen == [last |-> 0, outOfOrder |-> FALSE]

\* No file has been handed to the parsers, no name to decodeProjectPath.
PrsIdle == [lines |-> << >>, done |-> {},
            parsed |-> [session |-> Null, agentLinks |-> << >>],
            messages |-> << >>, summary |-> Null]
PthIdle == [pc |-> "idle", dirs |-> {}, encoded |-> << >>, result |-> << >>]
\* No directory has been listed, no transcript path taken apart.
LstIdle == [pc |-> "idle", entries |-> << >>, accessible |-> FALSE,
            failed |-> FALSE, result |-> << >>]
LocIdle == [home |-> << >>, encoded |-> << >>, name |-> << >>,
            filePath |-> << >>, done |-> {},
            group |-> << >>, summary |-> << >>, session |-> << >>]
PureUnused == prs = PrsIdle /\ pth = PthIdle /\ lst = LstIdle /\ loc = LocIdle

PLUnused ==
  /\ inp = [n |-> 0, concurrency |-> 1, value |-> << >>, outcome |-> << >>]
  /\ pl = PLIdle
  /\ seen = NothingSeen

\* The cache is empty when the process starts; the files are whatever the
\* disk holds.
CacheInit ==
  /\ fs \in {f \in [AllFiles ->
                     [exists : {TRUE}, mtime : {1}, content : Contents,
                      readable : {TRUE}]
                     \cup {[exists |-> FALSE, mtime |-> 1,
                            content |-> << >>, readable |-> TRUE]}] :
              \A a \in AgentFiles : ~f[a].exists}
  /\ cache = [p \in Paths |-> NoEntry]
  /\ calls = [c \in Calls |-> IdleCall]
  /\ hist = [p \in Paths |-> NoHistory]
  /\ used = [calls |-> 0, events |-> 0]
  /\ origin = [p \in Paths |-> NoOrigin]
  /\ PLUnused
  /\ PureUnused
  /\ StoreIdle

\* getCachedSessionSummary(p) is called: fsp.stat(p) is issued (line 46).
CallSummary(c, p) ==
  /\ calls[c].pc \in {"idle", "done"}
  /\ \A d \in Calls : d < c => calls[d].pc \notin {"idle", "done"}
  /\ used.calls < MaxCalls
  /\ calls' = [d \in Calls |->
       IF d = c
       THEN [IdleCall EXCEPT !.pc = "stat", !.path = p, !.prev = hist[p],
                             !.solo = (InFlightOn(p) \ {c} = {})]
       ELSE IF d \in InFlightOn(p) THEN [calls[d] EXCEPT !.solo = FALSE]
       ELSE calls[d]]
  /\ used' = [used EXCEPT !.calls = @ + 1]
  /\ UNCHANGED <<fs, cache, hist, origin, plVars, storeVars, pureVars>>

\* The stat system call runs: it reads the mtime, or fails (ENOENT).
StatRuns(c) ==
  /\ calls[c].pc = "stat"
  /\ calls' = [calls EXCEPT ![c].pc = "statted",
                 ![c].mtime = IF fs[calls[c].path].exists
                              THEN fs[calls[c].path].mtime ELSE 0,
                 ![c].pending = IF fs[calls[c].path].exists
                                THEN "stats" ELSE "error"]
  /\ UNCHANGED <<fs, cache, hist, used, origin, plVars, storeVars, pureVars>>

\* The await of line 46 resumes: lines 47-54, up to the existsSync and the
\* createReadStream of getSessionSummary (lines 334-360), or the catch.
AfterStat(c) ==
  LET p == calls[c].path IN
  /\ calls[c].pc = "statted"
  /\ IF calls[c].pending = "error"
     THEN LET r == Catch(cache, p) IN
          /\ cache' = r.cache
          /\ origin' = Origin(r.cache, p, origin[p])
          /\ calls' = Return(c, r.result, "caught")
          /\ hist' = Remember(c, r.result)
     ELSE IF CacheHit(cache, p, calls[c].mtime)
     THEN /\ calls' = Return(c, cache[p].summary, "hit")
          /\ hist' = Remember(c, cache[p].summary)
          /\ UNCHANGED <<cache, origin>>
     ELSE /\ calls' = [calls EXCEPT ![c].pc = "read",
                         ![c].pending = IF fs[p].exists
                                        THEN "stream" ELSE "nofile"]
          /\ UNCHANGED <<cache, hist, origin>>
  /\ UNCHANGED <<fs, used, plVars, storeVars, pureVars>>

\* The read stream of getSessionSummary delivers the lines of the file as it
\* is now, and the traversal makes a summary of them (lines 356-426); or the
\* read raises (the file is gone or unreadable).
StreamRead(c) ==
  LET p == calls[c].path IN
  /\ calls[c].pc = "read"
  /\ calls[c].pending = "stream"
  /\ calls' = IF ~fs[p].exists \/ ~fs[p].readable
              THEN [calls EXCEPT ![c].pending = "raised"]
              ELSE [calls EXCEPT
                      ![c].pending = "summary",
                      ![c].summary = getSessionSummary(p, fs[p].content),
                      ![c].read = [ver |-> fs[p].mtime,
                                   content |-> fs[p].content]]
  /\ UNCHANGED <<fs, cache, hist, used, origin, plVars, storeVars, pureVars>>

\* The await of line 54 resumes: getSessionSummary has returned a summary or
\* null, or the read of the stream has raised (lines 55-64).
AfterSummary(c) ==
  LET p == calls[c].path IN
  /\ calls[c].pc = "read"
  /\ calls[c].pending \in {"nofile", "raised", "summary"}
  /\ IF calls[c].pending = "nofile"
     THEN /\ cache' = CacheDelete(cache, p)
          /\ origin' = [origin EXCEPT ![p] = NoOrigin]
          /\ calls' = Return(c, Null, "nofile")
          /\ hist' = Remember(c, Null)
     ELSE IF calls[c].pending = "raised"
     THEN LET r == Catch(cache, p) IN
          /\ cache' = r.cache
          /\ origin' = Origin(r.cache, p, origin[p])
          /\ calls' = Return(c, r.result, "caught")
          /\ hist' = Remember(c, r.result)
     ELSE LET summary == calls[c].summary
              after == IF summary # Null
                       THEN CacheSet(cache, p, summary, calls[c].mtime)
                       ELSE CacheDelete(cache, p)
          IN
          /\ cache' = after
          /\ origin' = Origin(after, p, calls[c].read)
          /\ calls' = Return(c, summary, "miss")
          /\ hist' = Remember(c, summary)
  /\ UNCHANGED <<fs, used, plVars, storeVars, pureVars>>

\* clearSessionCache() (lines 67-69)
ClearSessionCache ==
  /\ used.events < MaxFsEvents
  /\ \E p \in Paths : cache[p] # NoEntry
  /\ cache' = [p \in Paths |-> NoEntry]
  /\ hist' = [p \in Paths |-> NoHistory]
  /\ origin' = [p \in Paths |-> NoOrigin]
  /\ calls' = [c \in Calls |->
       IF calls[c].pc \in {"stat", "statted", "read"}
       THEN [calls[c] EXCEPT !.dirty = TRUE] ELSE calls[c]]
  /\ used' = [used EXCEPT !.events = @ + 1]
  /\ UNCHANGED <<fs, plVars, storeVars, pureVars>>

\* Another process rewrites the transcript: new content, later mtime.
FileModified(p, content) ==
  /\ used.events < MaxFsEvents
  /\ fs[p].exists
  /\ content # fs[p].content
  /\ fs' = [fs EXCEPT ![p].content = content, ![p].mtime = @ + 1]
  /\ calls' = Disturb(p)
  /\ hist' = Touched(p)
  /\ used' = [used EXCEPT !.events = @ + 1]
  /\ UNCHANGED <<cache, origin, plVars, storeVars, pureVars>>

\* The transcript is deleted.
FileDeleted(p) ==
  /\ used.events < MaxFsEvents
  /\ fs[p].exists
  /\ fs' = [fs EXCEPT ![p].exists = FALSE, ![p].content = << >>,
                       ![p].readable = TRUE]
  /\ calls' = Disturb(p)
  /\ hist' = Touched(p)
  /\ used' = [used EXCEPT !.events = @ + 1]
  /\ UNCHANGED <<cache, origin, plVars, storeVars, pureVars>>

\* The permissions of the transcript change (chmod): stat still works, a
\* read of an unreadable file fails with EACCES; the mtime is not touched.
FileModeChanged(p) ==
  /\ used.events < MaxFsEvents
  /\ fs[p].exists
  /\ fs' = [fs EXCEPT ![p].readable = ~@]
  /\ calls' = Disturb(p)
  /\ used' = [used EXCEPT !.events = @ + 1]
  /\ UNCHANGED <<cache, hist, origin, plVars, storeVars, pureVars>>

CacheNext ==
  \/ \E c \in Calls, p \in SessionFiles : CallSummary(c, p)
  \/ \E c \in Calls : StatRuns(c)
  \/ \E c \in Calls : AfterStat(c)
  \/ \E c \in Calls : StreamRead(c)
  \/ \E c \in Calls : AfterSummary(c)
  \/ ClearSessionCache
  \/ \E p \in SessionFiles, content \in Contents : FileModified(p, content)
  \/ \E p \in SessionFiles : FileDeleted(p)
  \/ \E p \in SessionFiles : FileModeChanged(p)

SpecCache == CacheInit /\ [][CacheNext]_vars

\* A task is a nullary async operation: what it resolves with, and whether
\* it resolves ("ok"), rejects ("fail") or never settles ("hang").
Inputs ==
  UNION {[n : {n}, concurrency : 1..MaxConc,
          value : [1..n -> Values],
          outcome : [1..n -> {"ok", "fail", "hang"}]] : n \in 0..MaxTasks}

PLInit ==
  /\ inp \in Inputs
  /\ pl = PLIdle
  /\ seen = NothingSeen
  /\ PureUnused
  /\ CacheIdle
  /\ StoreIdle

PLStart ==
  /\ pl.status = "idle"
  /\ pl' = PLCall(inp.n, inp.concurrency)
  /\ UNCHANGED <<inp, seen, cacheVars, storeVars, pureVars>>

TaskResolves(w) ==
  /\ pl.status # "idle"
  /\ w \in DOMAIN pl.widx
  /\ pl.widx[w] # 0
  /\ inp.outcome[pl.widx[w]] = "ok"
  /\ pl' = PLResolve(pl, w, inp.value[pl.widx[w]])
  /\ seen' = [last |-> pl.widx[w],
              outOfOrder |-> seen.outOfOrder \/ pl.widx[w] < seen.last]
  /\ UNCHANGED <<inp, cacheVars, storeVars, pureVars>>

TaskRejects(w) ==
  /\ pl.status # "idle"
  /\ w \in DOMAIN pl.widx
  /\ pl.widx[w] # 0
  /\ inp.outcome[pl.widx[w]] = "fail"
  /\ pl' = PLReject(pl, w)
  /\ UNCHANGED <<inp, seen, cacheVars, storeVars, pureVars>>

PLNext ==
  \/ PLStart
  \/ \E w \in 1..(MaxTasks + 1) : TaskResolves(w)
  \/ \E w \in 1..(MaxTasks + 1) : TaskRejects(w)

SpecPL == PLInit /\ [][PLNext]_vars

\* Every continuation that is ready to run is eventually run by the event
\* loop, and a task that settles does so eventually.
SpecPLFair ==
  /\ PLInit
  /\ [][PLNext]_vars
  /\ WF_vars(PLStart)
  /\ \A w \in 1..(MaxTasks + 1) :
       WF_vars(TaskResolves(w)) /\ WF_vars(TaskRejects(w))

\* ------------------------------------------------------------------------
\* getAllSessions (lines 466-501) over listProjects (428-444),
\* listSessionFiles (446-464), getCachedSessionSummary and pLimit
\* ------------------------------------------------------------------------
MAX_CONCURRENT_OPERATIONS == 8
MaxFiles == 5

\* The project directories under ~/.claude/projects.
ProjectDirs == << "-a", "-b" >>

\* The startTime of the summary of the i-th session file of project p, for
\* the transcripts on the modelled disk; 0 stands for a missing startTime.
StartTimes == << 2, 0, 3, 1, 3, 0, 1 >>
FileStart(p, i) == StartTimes[((3 * p + i) % Len(StartTimes)) + 1]

\* What a summary task resolves with: null, or the summary of its file.
NoSummary == "null"
ASummary == "summary"

RECURSIVE InsertDesc(_, _, _)
\* Array.prototype.sort with (a, b) => key(b) - key(a) is stable: x goes
\* behind every element whose key is not smaller.
InsertDesc(s, x, key) ==
  IF s = << >> THEN << x >>
  ELSE IF key[Head(s)] >= key[x] THEN << Head(s) >> \o InsertDesc(Tail(s), x, key)
  ELSE << x >> \o s

RECURSIVE SortDesc(_, _)
SortDesc(s, key) ==
  IF s = << >> THEN << >>
  ELSE InsertDesc(SortDesc(SubSeq(s, 1, Len(s) - 1), key), s[Len(s)], key)

\* summaryResults.filter(s => s !== null), then the sort of line 481: the
\* session files of project p that have a summary, by descending startTime.
\* (The alternative leaves them in the order of the directory listing.)
SessionsInFileOrder(p, results) ==
  SelectSeq([i \in 1..Len(results) |-> i], LAMBDA i : results[i] = ASummary)
SessionsOf(p, results) ==
  LET kept == SelectSeq([i \in 1..Len(results) |-> i],
                        LAMBDA i : results[i] = ASummary)
  IN  SortDesc(kept, [i \in 1..Len(results) |-> FileStart(p, i)])

\* groupResults.filter(g => g !== null), then the sort of lines 494-498.
\* A project task returns null exactly when it has no session: the empty
\* sequence stands for null.
GroupsOf(results) ==
  LET kept == SelectSeq([p \in 1..Len(results) |-> p],
                        LAMBDA p : results[p] # << >>)
      key == [p \in 1..Len(results) |->
                IF results[p] = << >> THEN 0
                ELSE FileStart(p, results[p][1])]
  IN  [j \in 1..Len(kept) |->
         [projectEncoded |-> ProjectDirs[SortDesc(kept, key)[j]],
          sessions |-> results[SortDesc(kept, key)[j]]]]

\* The project tasks that pLimit has just invoked: each runs to the
\* fsp.access of listSessionFiles (line 450).
StartClaimed(task, outer) ==
  [p \in DOMAIN task |->
     IF task[p] = "unstarted" /\ outer.tstat[p] = "running"
     THEN "access" ELSE task[p]]

\* The session files of every project directory on disk.
StoreInit ==
  /\ disk \in UNION {[1..np -> 0..MaxFiles] : np \in 0..Len(ProjectDirs)}
  /\ gas = GasIdle
  /\ sess = SessIdle
  /\ PLUnused
  /\ PureUnused
  /\ CacheIdle

\* getAllSessions() is called: listProjects() issues fsp.access (line 432).
GetAllSessions ==
  /\ gas.phase = "idle"
  /\ gas' = [gas EXCEPT !.phase = "access"]
  /\ UNCHANGED <<disk, sess, plVars, cacheVars, pureVars>>

\* The access of the projects directory fails: listProjects returns [] and
\* the pLimit of line 490 runs over no task.
ProjectsDirMissing ==
  /\ gas.phase = "access"
  /\ gas' = [gas EXCEPT !.phase = "running", !.np = 0,
                        !.outer = PLCall(0, MAX_CONCURRENT_OPERATIONS)]
  /\ UNCHANGED <<disk, sess, plVars, cacheVars, pureVars>>

\* The access succeeds: fsp.readdir is issued (line 438).
ProjectsDirAccessed ==
  /\ gas.phase = "access"
  /\ gas' = [gas EXCEPT !.phase = "readdir"]
  /\ UNCHANGED <<disk, sess, plVars, cacheVars, pureVars>>

\* The readdir returns (ok) or fails: lines 439-442, then lines 469-490 up
\* to the await of the outer pLimit, whose workers have invoked their first
\* project tasks.
ProjectsListed(ok) ==
  /\ gas.phase = "readdir"
  /\ LET np == IF ok THEN Len(disk) ELSE 0
         outer == PLCall(np, MAX_CONCURRENT_OPERATIONS)
     IN  gas' = [gas EXCEPT
           !.phase = "running",
           !.np = np,
           !.outer = outer,
           !.task = StartClaimed([p \in 1..np |-> "unstarted"], outer),
           !.inner = [p \in 1..np |-> PLIdle]]
  /\ UNCHANGED <<disk, sess, plVars, cacheVars, pureVars>>

\* The access of a project directory succeeds: readdir is issued (line 456).
ProjectDirAccessed(p) ==
  /\ gas.phase = "running"
  /\ p \in 1..gas.np
  /\ gas.task[p] = "access"
  /\ gas' = [gas EXCEPT !.task[p] = "readdir"]
  /\ UNCHANGED <<disk, sess, plVars, cacheVars, pureVars>>

\* listSessionFiles returns: the files of the directory, or [] when the
\* access or the readdir failed; lines 472-473 start the inner pLimit, whose
\* workers have called getCachedSessionSummary on their first files.
SessionFilesListed(p, ok) ==
  /\ gas.phase = "running"
  /\ p \in 1..gas.np
  /\ gas.task[p] \in {"access", "readdir"}
  /\ gas.task[p] = "access" => ~ok
  /\ gas' = [gas EXCEPT
       !.task[p] = "summaries",
       !.inner[p] = PLCall(IF ok THEN disk[p] ELSE 0,
                           MAX_CONCURRENT_OPERATIONS)]
  /\ UNCHANGED <<disk, sess, plVars, cacheVars, pureVars>>

\* A getCachedSessionSummary call of project p returns r to its worker,
\* which stores it and calls getCachedSessionSummary on the next file.
SummaryReturned(p, w, r) ==
  /\ gas.phase = "running"
  /\ p \in 1..gas.np
  /\ gas.task[p] = "summaries"
  /\ w \in DOMAIN gas.inner[p].widx
  /\ gas.inner[p].widx[w] # 0
  /\ gas' = [gas EXCEPT !.inner[p] = PLResolve(@, w, r)]
  /\ UNCHANGED <<disk, sess, plVars, cacheVars, pureVars>>

\* The inner pLimit of project p has resolved: lines 475-487 build the
\* group, the project task returns it to its outer worker, which stores it
\* and invokes the next project task.
ProjectTaskReturned(p) ==
  /\ gas.phase = "running"
  /\ p \in 1..gas.np
  /\ gas.task[p] = "summaries"
  /\ gas.inner[p].status = "resolved"
  /\ LET w == CHOOSE v \in DOMAIN gas.outer.widx : gas.outer.widx[v] = p
         outer == PLResolve(gas.outer, w, SessionsOf(p, gas.inner[p].results))
     IN  gas' = [gas EXCEPT
           !.outer = outer,
           !.task = StartClaimed([gas.task EXCEPT ![p] = "done"], outer)]
  /\ UNCHANGED <<disk, sess, plVars, cacheVars, pureVars>>

\* The outer pLimit has resolved: lines 492-500.
AllSessionsReturned ==
  /\ gas.phase = "running"
  /\ gas.outer.status = "resolved"
  /\ gas' = [gas EXCEPT !.phase = "done",
                        !.groups = GroupsOf(gas.outer.results)]
  /\ UNCHANGED <<disk, sess, plVars, cacheVars, pureVars>>

StoreNext ==
  \/ GetAllSessions
  \/ ProjectsDirMissing
  \/ ProjectsDirAccessed
  \/ \E ok \in BOOLEAN : ProjectsListed(ok)
  \/ \E p \in 1..Len(ProjectDirs) : ProjectDirAccessed(p)
  \/ \E p \in 1..Len(ProjectDirs), ok \in BOOLEAN : SessionFilesListed(p, ok)
  \/ \E p \in 1..Len(ProjectDirs), w \in 1..MAX_CONCURRENT_OPERATIONS,
        r \in {NoSummary, ASummary} : SummaryReturned(p, w, r)
  \/ \E p \in 1..Len(ProjectDirs) : ProjectTaskReturned(p)
  \/ AllSessionsReturned

SpecStore == StoreInit /\ [][StoreNext]_vars

\* The summary computations in flight in the getAllSessions() call.
SummariesInFlight ==
  LET Count(p) == IF gas.task[p] = "summaries"
                  THEN Cardinality(InFlight(gas.inner[p])) ELSE 0
      RECURSIVE Sum(_)
      Sum(p) == IF p = 0 THEN 0 ELSE Count(p) + Sum(p - 1)
  IN  IF gas.phase = "running" THEN Sum(gas.np) ELSE 0

\* C4: during one getAllSessions() call at most 8 per-file summary
\* computations are in flight at any moment.
C4_AtMostEightSummaries == SummariesInFlight <= MAX_CONCURRENT_OPERATIONS

\* ------------------------------------------------------------------------
\* getSession (lines 595-639) with findSubagentFiles (503-530)
\* ------------------------------------------------------------------------
\* The session whose transcript is abc.jsonl, and the transcripts of the
\* disk: a tool use that started agent x, a tool use without agent, and a
\* file whose only message is blank.
SessionFile == "abc.jsonl"

TaskTranscript ==
  << UserMsg(1),
     AsstEntry(2, BlockContent(<< ToolUseBlock("t1", "Task") >>)),
     ProgressEntry("x", "t1"),
     UserEntry(3, BlockContent(<< ToolResultBlock("t1", Hello) >>)) >>
BashTranscript ==
  << UserMsg(1),
     AsstEntry(2, BlockContent(<< ToolUseBlock("t1", "Bash") >>)),
     UserEntry(3, BlockContent(<< ToolResultBlock("t1", Hello) >>)) >>
BlankTranscript ==
  << UserEntry(1, StringContent(<< " " >>)), Snapshot >>

\* Agents x and y were both started by the tool use t1; t3 started none.
TwoAgentsTranscript ==
  << AsstEntry(2, BlockContent(<< ToolUseBlock("t1", "Task"),
                                  ToolUseBlock("t3", "Task") >>)),
     ProgressEntry("x", "t1"),
     ProgressEntry("y", "t1") >>
\* A progress entry that names a tool use which is not a Task.
BashLinkedTranscript ==
  << AsstEntry(2, BlockContent(<< ToolUseBlock("t1", "Bash") >>)),
     ProgressEntry("y", "t1") >>

PrimaryTranscripts ==
  {TaskTranscript, BashTranscript, BlankTranscript, TwoAgentsTranscript,
   BashLinkedTranscript}
AgentTranscripts == {<< UserMsg(4), AsstMsg(5) >>, << Snapshot >>}

\* path.basename(subPath, '.jsonl').replace('agent-', '')
AgentIdOf(subPath) == CHOOSE id \in AgentIds : AgentFileOf[id] = subPath

\* readdirSync(projectDir) filtered to agent-*.jsonl (lines 519-527); the
\* session has no subagents directory on the modelled disk (line 507).
findSubagentFiles ==
  SelectSeq([i \in 1..Len(AgentOrder) |-> AgentFileOf[AgentOrder[i]]],
            LAMBDA f : fs[f].exists)

\* subagents[agentId] = {...}: a new key goes last, an existing key keeps
\* its place (Object.entries order).
AttachSubagent(subagents, sub) ==
  IF \E k \in 1..Len(subagents) : subagents[k].agentId = sub.agentId
  THEN [k \in 1..Len(subagents) |->
          IF subagents[k].agentId = sub.agentId THEN sub ELSE subagents[k]]
  ELSE Append(subagents, sub)

\* Lines 627-636: every tool-use block named Task gets the agent id of the
\* first subagent whose parentToolUseId is its id. (The alternative stamps
\* the blocks of every name.)
StampAnyTool(messages, subagents) ==
  [m \in 1..Len(messages) |->
     [messages[m] EXCEPT !.toolUseBlocks =
        [k \in 1..Len(@) |->
           LET toolUse == @[k]
               match == {j \in 1..Len(subagents) :
                           subagents[j].parentToolUseId = toolUse.id}
           IN  IF match # {}
               THEN [toolUse EXCEPT !.agentId =
                       subagents[CHOOSE j \in match : \A i \in match : j <= i].agentId]
               ELSE toolUse]]]
Stamp(messages, subagents) ==
  [m \in 1..Len(messages) |->
     [messages[m] EXCEPT !.toolUseBlocks =
        [k \in 1..Len(@) |->
           LET toolUse == @[k]
               match == {j \in 1..Len(subagents) :
                           subagents[j].parentToolUseId = toolUse.id}
           IN  IF toolUse.name = "Task" /\ match # {}
               THEN [toolUse EXCEPT !.agentId =
                       subagents[CHOOSE j \in match : \A i \in match : j <= i].agentId]
               ELSE toolUse]]]

RECURSIVE SubagentLoop(_)
\* The loop of lines 610-625 from the head of s.todo up to its next await
\* on the read of an agent file, or to the return of line 638.
SubagentLoop(s) ==
  IF s.todo = << >>
  THEN [s EXCEPT !.pc = "done",
                 !.result = [session |-> [s.session EXCEPT !.messages =
                                            Stamp(@, s.subagents)],
                             subagents |-> s.subagents]]
  ELSE LET subPath == Head(s.todo) IN
       IF GetKey(s.agentLinks, AgentIdOf(subPath)) # Undefined
          /\ fs[subPath].exists
       THEN [s EXCEPT !.pc = "subparse"]
       ELSE SubagentLoop([s EXCEPT !.todo = Tail(@)])

\* The primary transcript and the agent files of the project directory.
SessionInit ==
  /\ fs \in {f \in [AllFiles ->
                     UNION {[exists : {TRUE}, mtime : {1}, content : T,
                             readable : {TRUE}] :
                            T \in {PrimaryTranscripts, AgentTranscripts}}
                     \cup {[exists |-> FALSE, mtime |-> 1,
                            content |-> << >>, readable |-> TRUE]}] :
              /\ \A p \in SessionFiles \ {SessionFile} : ~f[p].exists
              /\ f[SessionFile].exists =>
                   f[SessionFile].content \in PrimaryTranscripts
              /\ \A a \in AgentFiles :
                   f[a].exists => f[a].content \in AgentTranscripts}
  /\ cache = [p \in Paths |-> NoEntry]
  /\ calls = [c \in Calls |-> IdleCall]
  /\ hist = [p \in Paths |-> NoHistory]
  /\ used = [calls |-> 0, events |-> 0]
  /\ origin = [p \in Paths |-> NoOrigin]
  /\ sess = SessIdle
  /\ gas = GasIdle /\ disk = << >>
  /\ PLUnused
  /\ PureUnused

\* getSession("abc", project) is called: the existsSync of line 205, then
\* the read stream of line 230 is opened.
CallGetSession ==
  /\ sess.pc = "idle"
  /\ sess' = IF fs[SessionFile].exists
             THEN [sess EXCEPT !.pc = "parse"]
             ELSE [sess EXCEPT !.pc = "done", !.result = Null]
  /\ UNCHANGED <<disk, gas, plVars, cacheVars, pureVars>>

\* The for await of line 237 ends: the read has raised, and the finally of
\* line 290 lets the error out of parseSessionFileWithAgentLinks and of
\* getSession; or the file was parsed and lines 603-625 run to the first
\* read of an agent file or to the return.
PrimaryParsed ==
  /\ sess.pc = "parse"
  /\ IF ~fs[SessionFile].exists \/ ~fs[SessionFile].readable
     THEN sess' = [sess EXCEPT !.pc = "done", !.result = Thrown]
     ELSE LET r == parseSessionFileWithAgentLinks(SessionFile,
                                                  fs[SessionFile].content)
          IN  IF r.session = Null
              THEN sess' = [sess EXCEPT !.primary = fs[SessionFile].content,
                                        !.pc = "done", !.result = Null]
              ELSE sess' = SubagentLoop([sess EXCEPT
                             !.primary = fs[SessionFile].content,
                             !.session = r.session,
                             !.agentLinks = r.agentLinks,
                             !.todo = findSubagentFiles,
                             !.listed = findSubagentFiles])
  /\ UNCHANGED <<disk, gas, plVars, cacheVars, pureVars>>

\* The for await of line 547 ends: the read has raised (the finally of line
\* 578 lets the error out), or the agent file was parsed and the loop of
\* line 610 goes on.
SubagentParsed ==
  /\ sess.pc = "subparse"
  /\ LET subPath == Head(sess.todo) IN
     IF ~fs[subPath].exists \/ ~fs[subPath].readable
     THEN sess' = [sess EXCEPT !.pc = "done", !.result = Thrown]
     ELSE LET messages == parseSubagentFile(fs[subPath].content)
              agentId == AgentIdOf(subPath)
              attached ==
                IF Len(messages) > 0
                THEN AttachSubagent(sess.subagents,
                       [agentId |-> agentId,
                        parentToolUseId |-> GetKey(sess.agentLinks, agentId),
                        messages |-> messages,
                        messageCount |-> Len(messages)])
                ELSE sess.subagents
          IN  sess' = SubagentLoop([sess EXCEPT !.subagents = attached,
                                                !.todo = Tail(@)])
  /\ UNCHANGED <<disk, gas, plVars, cacheVars, pureVars>>

SessionNext ==
  \/ CallGetSession
  \/ PrimaryParsed
  \/ SubagentParsed
  \/ \E content \in PrimaryTranscripts : FileModified(SessionFile, content)
  \/ \E p \in AgentFiles, content \in AgentTranscripts : FileModified(p, content)
  \/ \E p \in {SessionFile} \cup AgentFiles : FileDeleted(p)
  \/ \E p \in {SessionFile} \cup AgentFiles : FileModeChanged(p)

SpecSession == SessionInit /\ [][SessionNext]_vars

\* C10: no exception crosses a public operation: a finished getSession call
\* has returned a session or null, whatever happened to the files.
C10_NoExceptionCrosses == sess.pc = "done" => sess.result # Thrown

\* ------------------------------------------------------------------------
\* The three parsers on one transcript file
\* ------------------------------------------------------------------------
MaxLines == 3

\* The lines a transcript may hold.
EmptyUser == UserEntry(1, StringContent(<< >>))
BlankUser == UserEntry(1, StringContent(<< " " >>))
TaskUse == AsstEntry(2, BlockContent(<< ToolUseBlock("t1", "Task") >>))
ResultA == UserEntry(3, BlockContent(<< ToolResultBlock("t1", << "a" >>) >>))
ResultB == UserEntry(4, BlockContent(<< ToolResultBlock("t1", << "b" >>) >>))
Thought == AsstEntry(6, BlockContent(<< ThinkingBlock(Hello) >>))
LineKinds ==
  { UserMsg(5), EmptyUser, BlankUser, TaskUse, ResultA, ResultB, Thought,
    Snapshot, Progress, OtherEntry, NullLine, BrokenLine }

Transcripts == UNION {[1..n -> LineKinds] : n \in 0..MaxLines}

\* The file is any transcript of at most MaxLines lines; it exists and can be
\* read, and does not change while it is parsed.
ParseInit ==
  /\ prs \in {[PrsIdle EXCEPT !.lines = lines] : lines \in Transcripts}
  /\ pth = PthIdle
  /\ lst = LstIdle
  /\ loc = LocIdle
  /\ PLUnused
  /\ CacheIdle
  /\ StoreIdle

\* parseSessionFileWithAgentLinks(filePath) runs to its return.
ParseSessionFile ==
  /\ "session" \notin prs.done
  /\ prs' = [prs EXCEPT
               !.done = @ \cup {"session"},
               !.parsed = parseSessionFileWithAgentLinks(SessionFile, prs.lines)]
  /\ UNCHANGED <<pth, lst, loc, plVars, cacheVars, storeVars>>

\* parseSubagentFile(filePath) runs to its return.
ParseSubagentFile ==
  /\ "subagent" \notin prs.done
  /\ prs' = [prs EXCEPT !.done = @ \cup {"subagent"},
                        !.messages = parseSubagentFile(prs.lines)]
  /\ UNCHANGED <<pth, lst, loc, plVars, cacheVars, storeVars>>

\* getSessionSummary(filePath) runs to its return.
GetSessionSummary ==
  /\ "summary" \notin prs.done
  /\ prs' = [prs EXCEPT !.done = @ \cup {"summary"},
                        !.summary = getSessionSummary(SessionFile, prs.lines)]
  /\ UNCHANGED <<pth, lst, loc, plVars, cacheVars, storeVars>>

ParseNext ==
  \/ ParseSessionFile
  \/ ParseSubagentFile
  \/ GetSessionSummary

SpecParse == ParseInit /\ [][ParseNext]_vars

\* Entries that differ in what the parsers read besides the content: the
\* metadata, the timestamp, the model, and whether there is a message
\* payload at all.
WithMeta(entry, cwd, version, gitBranch) ==
  [entry EXCEPT !.cwd = cwd, !.version = version, !.gitBranch = gitBranch]
Yo == << "y", "o" >>
FirstUser == WithMeta(UserEntry(3, StringContent(Hello)), "/a", "1", "main")
\* An entry without gitBranch.
SecondUser == WithMeta(UserEntry(5, StringContent(Yo)), "/b", "2", "")
Reply == [WithMeta(AsstEntry(4, StringContent(Hello)), "/b", "2", "dev")
            EXCEPT !.model = "m1"]
\* A user entry that only answers a tool call: its text is empty.
ResultOnly ==
  WithMeta(UserEntry(2, BlockContent(<< ToolResultBlock("t1", << "a" >>) >>)),
           "/c", "3", "fix")
BlockUser ==
  UserEntry(6, BlockContent(<< TextBlock(<< "a" >>),
                               ToolResultBlock("t1", << "r" >>),
                               TextBlock(<< "b" >>) >>))
\* A text one character longer than a summary keeps.
LongText == [i \in 1..(FirstMessageChars + 1) |-> "x"]
LongUser == UserEntry(7, StringContent(LongText))
\* {"type":"user","timestamp":...,"cwd":...} and the same of an assistant:
\* no message payload.
NoPayloadUser ==
  [WithMeta(UserEntry(1, StringContent(<< >>)), "/d", "4", "tmp")
     EXCEPT !.message = FALSE]
NoPayloadAsst ==
  [WithMeta(AsstEntry(9, StringContent(<< >>)), "/d", "4", "tmp")
     EXCEPT !.message = FALSE]
\* A user entry without timestamp.
Undated == UserEntry(NaN, StringContent(Hello))
FieldKinds ==
  { FirstUser, SecondUser, Reply, ResultOnly, BlockUser, LongUser,
    NoPayloadUser, NoPayloadAsst, Undated }
FieldTranscripts == UNION {[1..n -> FieldKinds] : n \in 0..MaxLines}

FieldsInit ==
  /\ prs \in {[PrsIdle EXCEPT !.lines = lines] : lines \in FieldTranscripts}
  /\ pth = PthIdle
  /\ lst = LstIdle
  /\ loc = LocIdle
  /\ PLUnused
  /\ CacheIdle
  /\ StoreIdle

SpecFields == FieldsInit /\ [][ParseNext]_vars

\* ------------------------------------------------------------------------
\* decodeProjectPath and findValidPath (lines 105-147)
\* ------------------------------------------------------------------------
\* A name or a path is the sequence of its characters; dirs is the set of
\* the directories of the disk, each by its absolute path.
MaxSegments == 3
MaxLeaves == 2

\* str.startsWith(c)
startsWith(str, c) == str # << >> /\ str[1] = c

\* str.replace(/from/g, to) for a one-character pattern. (The alternative is
\* str.replace('from', to), which replaces the first occurrence only.)
ReplaceFirst(str, from, to) ==
  [i \in 1..Len(str) |->
     IF str[i] = from /\ \A j \in 1..(i - 1) : str[j] # from
     THEN to ELSE str[i]]
ReplaceAll(str, from, to) ==
  [i \in 1..Len(str) |-> IF str[i] = from THEN to ELSE str[i]]

RECURSIVE Split(_, _)
\* str.split(sep)
Split(str, sep) ==
  IF \A i \in 1..Len(str) : str[i] # sep THEN << str >>
  ELSE LET i == MinOf({j \in 1..Len(str) : str[j] = sep})
       IN  << SubSeq(str, 1, i - 1) >> \o Split(SubSeq(str, i + 1, Len(str)), sep)

RECURSIVE Collapse(_)
\* Runs of slashes count as one slash.
Collapse(path) ==
  IF Len(path) < 2 THEN path
  ELSE IF path[1] = "/" /\ path[2] = "/" THEN Collapse(Tail(path))
  ELSE << path[1] >> \o Collapse(Tail(path))

\* path.normalize for a path without dots: no empty segment, and no
\* trailing slash but the one of the root.
Normalize(path) ==
  LET q == Collapse(path)
  IN  IF Len(q) > 1 /\ q[Len(q)] = "/" THEN SubSeq(q, 1, Len(q) - 1) ELSE q

\* path.join(basePath, segment)
pathJoin(basePath, segment) == Normalize(basePath \o << "/" >> \o segment)

\* fs.existsSync(path): the file system resolves a path as its normal form.
existsSync(dirs, path) == Normalize(path) \in dirs

\* The value null of findValidPath.
NotFound == [found |-> FALSE, path |-> << >>]

\* if (result) return result, for the separator (lines 127-130) and then
\* for the merge (lines 132-137). (The alternative never merges.)
SeparatorOnly(first, second) == first
FirstFound(first, second) == IF first.found THEN first ELSE second

RECURSIVE findValidPath(_, _, _)
findValidPath(dirs, basePath, remainingSegments) ==
  IF Len(remainingSegments) = 0
  THEN IF existsSync(dirs, basePath)
       THEN [found |-> TRUE, path |-> basePath] ELSE NotFound
  ELSE
    LET withSlash == pathJoin(basePath, remainingSegments[1])
        first == IF existsSync(dirs, withSlash)
                 THEN findValidPath(dirs, withSlash, Tail(remainingSegments))
                 ELSE NotFound
        second == IF Len(remainingSegments) >= 2
                  THEN findValidPath(dirs, basePath,
                         << remainingSegments[1] \o << "-" >>
                            \o remainingSegments[2] >>
                         \o SubSeq(remainingSegments, 3,
                                   Len(remainingSegments)))
                  ELSE NotFound
        found == FirstFound(first, second)
    IN  IF found.found THEN found
        ELSE IF Len(remainingSegments) = 1 /\ existsSync(dirs, withSlash)
        THEN [found |-> TRUE, path |-> withSlash]
        ELSE NotFound

decodeProjectPath(dirs, encoded) ==
  IF ~startsWith(encoded, "-") THEN encoded
  ELSE LET simpleDecode == ReplaceAll(encoded, "-", "/") IN
    IF existsSync(dirs, simpleDecode) THEN simpleDecode
    ELSE LET segments == Split(Tail(encoded), "-")
             result == findValidPath(dirs, << "/" >>, segments)
         IN  IF result.found THEN result.path ELSE simpleDecode

RECURSIVE Join(_, _)
\* segments.join(sep), sep[i] standing between segments i and i+1.
Join(segments, sep) ==
  IF Len(segments) = 1 THEN segments[1]
  ELSE segments[1] \o << sep[1] >> \o Join(Tail(segments), Tail(sep))

\* The directory names without a dash, and the lists of them that an
\* encoded name may stand for.
Segments == {<< "a" >>, << "b" >>}
SegmentLists == UNION {[1..n -> Segments] : n \in 1..MaxSegments}

\* The ways to read the dashes between the segments: as a separator or as a
\* character of a directory name.
Gaps(segments) == [1..(Len(segments) - 1) -> {"/", "-"}]
Regroup(segments, gaps) == << "/" >> \o Join(segments, gaps)

\* The encoded names handed to decodeProjectPath: the encodings of the
\* segment lists, the encoding of the root, a name with an empty segment
\* and a name that is not an encoding.
EncodedNames ==
  {<< "-" >> \o Join(l, [i \in 1..(Len(l) - 1) |-> "-"]) : l \in SegmentLists}
  \cup {<< "-" >>, << "-", "a", "-", "-", "b" >>, << "a", "-", "b" >>}

\* The directories that decodeProjectPath(encoded) may look for: the
\* regroupings of the leading segments of the name.
DirsFor(encoded) ==
  LET segments == Split(IF startsWith(encoded, "-") THEN Tail(encoded)
                        ELSE encoded, "-")
  IN  {Normalize(Regroup(SubSeq(segments, 1, ng[1]), ng[2])) : ng \in
         UNION {{n} \X Gaps(SubSeq(segments, 1, n)) : n \in 1..Len(segments)}}

\* A directory with its ancestors.
WithAncestors(path) ==
  {<< "/" >>, path}
  \cup {SubSeq(path, 1, i - 1) : i \in {j \in 2..Len(path) : path[j] = "/"}}

RECURSIVE DirSets(_, _)
\* The sets of at most n of the directories.
DirSets(n, dirs) ==
  IF n = 0 THEN {{}}
  ELSE DirSets(n - 1, dirs)
       \cup {L \cup {d} : L \in DirSets(n - 1, dirs), d \in dirs}

\* The disks for an encoded name: the root, and at most MaxLeaves of these
\* directories with their ancestors.
Disks(encoded) ==
  {UNION {WithAncestors(d) : d \in L} \cup {<< "/" >>} :
     L \in DirSets(MaxLeaves, DirsFor(encoded))}

DecodeInit ==
  /\ pth \in UNION {{[PthIdle EXCEPT !.dirs = dirs, !.encoded = encoded] :
                       dirs \in Disks(encoded)} : encoded \in EncodedNames}
  /\ prs = PrsIdle
  /\ lst = LstIdle
  /\ loc = LocIdle
  /\ PLUnused
  /\ CacheIdle
  /\ StoreIdle

\* decodeProjectPath(encoded) runs to its return; it is synchronous.
DecodeProjectPath ==
  /\ pth.pc = "idle"
  /\ pth' = [pth EXCEPT !.pc = "done",
                        !.result = decodeProjectPath(pth.dirs, pth.encoded)]
  /\ UNCHANGED <<prs, lst, loc, plVars, cacheVars, storeVars>>

DecodeNext == DecodeProjectPath

SpecDecode == DecodeInit /\ [][DecodeNext]_vars

\* ------------------------------------------------------------------------
\* listSessionFiles: the transcripts of one project directory
\* ------------------------------------------------------------------------

\* How many entries the listed directory holds at most.
MaxNames == 3

\* str.startsWith(prefix) and str.endsWith(suffix) on character sequences.
nameStartsWith(str, prefix) ==
  Len(str) >= Len(prefix) /\ SubSeq(str, 1, Len(prefix)) = prefix
nameEndsWith(str, suffix) ==
  /\ Len(str) >= Len(suffix)
  /\ SubSeq(str, Len(str) - Len(suffix) + 1, Len(str)) = suffix

DotJsonl == << ".", "j", "s", "o", "n", "l" >>
AgentDash == << "a", "g", "e", "n", "t", "-" >>

\* The names a project directory may hold: transcripts, agent files, the
\* directory of a session, and names that only look like one or the other.
AbcJsonl == << "a", "b", "c" >> \o DotJsonl
AgentXJsonl == AgentDash \o << "x" >> \o DotJsonl
AbcDir == << "a", "b", "c" >>
NotesTxt == << "n", ".", "t", "x", "t" >>
BareJsonl == DotJsonl
AgentJsonl == << "a", "g", "e", "n", "t" >> \o DotJsonl
JsonlBak == << "x" >> \o DotJsonl \o << ".", "b" >>
AgentDashJsonl == AgentDash \o DotJsonl
AgentXTxt == AgentDash \o << "x", ".", "t" >>
\* The order in which readdir reports the names it finds.
EntryOrder == << AbcJsonl, AgentXJsonl, AbcDir, NotesTxt, BareJsonl,
                 AgentJsonl, JsonlBak, AgentDashJsonl, AgentXTxt >>
EntryNames == {EntryOrder[i] : i \in DOMAIN EntryOrder}
Directories ==
  {SelectSeq(EntryOrder, LAMBDA name : name \in S) :
     S \in {T \in SUBSET EntryNames : Cardinality(T) <= MaxNames}}

\* os.homedir() of the listing, and the project that is listed.
HomeDir == << "/", "h" >>
ListedProject == << "-", "a" >>

\* path.join(os.homedir(), '.claude')
getClaudeDir(home) == pathJoin(home, << ".", "c", "l", "a", "u", "d", "e" >>)
Projects == << "p", "r", "o", "j", "e", "c", "t", "s" >>
\* path.join(getClaudeDir(), 'projects')
getProjectsDir(home) == pathJoin(getClaudeDir(home), Projects)

\* name.endsWith('.jsonl') && !name.startsWith('agent-'). (The alternative
\* keeps every .jsonl file.)
AnyJsonlFile(name) == nameEndsWith(name, DotJsonl)
IsSessionFile(name) ==
  nameEndsWith(name, DotJsonl) /\ ~nameStartsWith(name, AgentDash)

\* files.filter(...).map((name) => path.join(projectDir, name))
SessionPaths(projectDir, files) ==
  LET kept == SelectSeq(files, IsSessionFile)
  IN  [i \in DOMAIN kept |-> pathJoin(projectDir, kept[i])]

ListInit ==
  /\ lst \in {[LstIdle EXCEPT !.entries = entries, !.accessible = a] :
                entries \in Directories, a \in BOOLEAN}
  /\ prs = PrsIdle
  /\ pth = PthIdle
  /\ loc = LocIdle
  /\ PLUnused
  /\ CacheIdle
  /\ StoreIdle

\* await fsp.access(projectDir): a failure returns [].
AccessRuns ==
  /\ lst.pc = "idle"
  /\ lst' = IF lst.accessible
            THEN [lst EXCEPT !.pc = "accessed"]
            ELSE [lst EXCEPT !.pc = "done", !.failed = TRUE,
                             !.result = << >>]
  /\ UNCHANGED <<prs, pth, loc, plVars, cacheVars, storeVars>>

\* The directory is removed, or its permissions are taken away, while the
\* call is waiting.
DirectoryRemoved ==
  /\ lst.pc \in {"idle", "accessed"}
  /\ lst.accessible
  /\ lst' = [lst EXCEPT !.accessible = FALSE]
  /\ UNCHANGED <<prs, pth, loc, plVars, cacheVars, storeVars>>

\* await fsp.readdir(projectDir), the filter and the map; a failure of
\* readdir is caught and returns [].
ReaddirRuns ==
  /\ lst.pc = "accessed"
  /\ lst' = IF lst.accessible
            THEN [lst EXCEPT !.pc = "done",
                    !.result = SessionPaths(
                       pathJoin(getProjectsDir(HomeDir), ListedProject),
                       lst.entries)]
            ELSE [lst EXCEPT !.pc = "done", !.failed = TRUE,
                             !.result = << >>]
  /\ UNCHANGED <<prs, pth, loc, plVars, cacheVars, storeVars>>

ListNext == AccessRuns \/ DirectoryRemoved \/ ReaddirRuns

SpecList == ListInit /\ [][ListNext]_vars

\* ------------------------------------------------------------------------
\* projectEncoded: the project a transcript belongs to, read off its path
\* ------------------------------------------------------------------------

\* pathParts.indexOf(part), counted from 1, and 0 for JavaScript's -1.
IndexOf(pathParts, part) ==
  IF \A i \in DOMAIN pathParts : pathParts[i] # part THEN 0
  ELSE MinOf({i \in DOMAIN pathParts : pathParts[i] = part})

\* const pathParts = filePath.split(path.sep); the segment after the first
\* one named 'projects', and '' when there is none.
ProjectEncodedOf(filePath) ==
  LET pathParts == Split(filePath, "/")
      projectsIdx == IndexOf(pathParts, Projects)
  IN  IF projectsIdx # 0 /\ projectsIdx < Len(pathParts)
      THEN pathParts[projectsIdx + 1]
      ELSE << >>

\* Home directories of up to MaxSegments segments, one of which may be
\* named projects.
HomeSegments == {<< "h" >>, << "u" >>, Projects}
RECURSIVE HomeLists(_)
HomeLists(n) ==
  IF n = 0 THEN {<< >>}
  ELSE HomeLists(n - 1) \cup
       {<< seg >> \o l : seg \in HomeSegments,
                         l \in {k \in HomeLists(n - 1) : Len(k) = n - 1}}
RECURSIVE Absolute(_)
Absolute(segs) ==
  IF segs = << >> THEN << >>
  ELSE << "/" >> \o Head(segs) \o Absolute(Tail(segs))
Homes == {Absolute(segs) : segs \in HomeLists(MaxSegments) \ {<< >>}}
LocatedProjects == {<< "-", "a" >>, << "-", "a", "-", "b" >>, Projects}
LocatedFiles == {AbcJsonl, BareJsonl}

LocInit ==
  /\ loc \in {[LocIdle EXCEPT !.home = h, !.encoded = e, !.name = n] :
                h \in Homes, e \in LocatedProjects, n \in LocatedFiles}
  /\ prs = PrsIdle
  /\ pth = PthIdle
  /\ lst = LstIdle
  /\ PLUnused
  /\ CacheIdle
  /\ StoreIdle

\* getAllSessions lists the transcripts of the project directory
\* loc.encoded and keeps that name as the group's projectEncoded.
GroupListed ==
  /\ loc.done = {}
  /\ loc' = [loc EXCEPT
       !.done = {"group"},
       !.filePath = pathJoin(pathJoin(getProjectsDir(loc.home), loc.encoded),
                             loc.name),
       !.group = loc.encoded]
  /\ UNCHANGED <<prs, pth, lst, plVars, cacheVars, storeVars>>

\* getSessionSummary(filePath) reads projectEncoded off the path.
SummaryLocated ==
  /\ "group" \in loc.done
  /\ "summary" \notin loc.done
  /\ loc' = [loc EXCEPT !.done = @ \cup {"summary"},
                        !.summary = ProjectEncodedOf(loc.filePath)]
  /\ UNCHANGED <<prs, pth, lst, plVars, cacheVars, storeVars>>

\* parseSessionFileWithAgentLinks(filePath) does the same.
SessionLocated ==
  /\ "group" \in loc.done
  /\ "session" \notin loc.done
  /\ loc' = [loc EXCEPT !.done = @ \cup {"session"},
                        !.session = ProjectEncodedOf(loc.filePath)]
  /\ UNCHANGED <<prs, pth, lst, plVars, cacheVars, storeVars>>

LocNext == GroupListed \/ SummaryLocated \/ SessionLocated

SpecLoc == LocInit /\ [][LocNext]_vars

\* ------------------------------------------------------------------------
\* Properties of pLimit
\* ------------------------------------------------------------------------


\* C1: when pLimit resolves, slot i of the returned array holds the result
\* of tasks[i], for every i, whatever the order in which the tasks completed.
C1_ResultsInTaskOrder ==
  pl.status = "resolved" =>
    \A i \in 1..inp.n : pl.results[i] = inp.value[i]

C1_Witness ==
  /\ pl.status = "resolved"
  /\ inp.n >= 2
  /\ seen.outOfOrder
  /\ \E i, j \in 1..inp.n : inp.value[i] # inp.value[j]

\* C2: at every moment of a call, the number of tasks started and not yet
\* completed is at most min(N, len(tasks)).
C2_BoundedInFlight ==
  pl.status # "idle" =>
    Cardinality(InFlight(pl)) <=
      (IF inp.concurrency < inp.n THEN inp.concurrency ELSE inp.n)

C2_Witness ==
  /\ pl.status = "pending"
  /\ inp.concurrency < inp.n
  /\ Cardinality(InFlight(pl)) = inp.concurrency
  /\ \E i \in 1..inp.n : pl.tstat[i] = "done"
  /\ \E i \in 1..inp.n : pl.tstat[i] = "unstarted"

\* C3: no task is invoked twice, no result slot is written twice, two
\* workers never hold the same index, the claimed indices are exactly those
\* below the counter (none is jumped over), and when the call resolves every
\* task has been invoked once and every slot written once.
C3_DisjointClaims ==
  pl.status # "idle" =>
    /\ \A i \in 1..inp.n : pl.claims[i] <= 1 /\ pl.writes[i] <= 1
    /\ \A i \in 1..inp.n : (pl.claims[i] = 1) <=> (i <= pl.currentIndex)
    /\ \A v, w \in DOMAIN pl.widx :
         (v # w /\ pl.widx[v] # 0) => pl.widx[v] # pl.widx[w]
    /\ \A i \in 1..inp.n :
         pl.writes[i] = 1 => pl.tstat[i] = "done"
    /\ pl.status = "resolved" =>
         \A i \in 1..inp.n : pl.claims[i] = 1 /\ pl.writes[i] = 1

C3_Witness ==
  /\ pl.status = "resolved"
  /\ inp.n >= 3
  /\ inp.concurrency = 2
  /\ seen.outOfOrder

\* C5: whenever the call has settled, by resolving or by rejecting, no task
\* is running and no task is unstarted.
C5_SettledMeansAllFinished ==
  pl.status \in {"resolved", "rejected"} =>
    /\ InFlight(pl) = {}
    /\ \A i \in 1..inp.n : pl.tstat[i] # "unstarted"

\* The case of C6: concurrency >= 2, exactly one task never completes, every
\* other task completes.
HangCase ==
  /\ inp.concurrency >= 2
  /\ Cardinality({i \in 1..inp.n : inp.outcome[i] = "hang"}) = 1
  /\ \A i \in 1..inp.n : inp.outcome[i] \in {"ok", "hang"}

OthersStored ==
  /\ pl.status # "idle"
  /\ \A i \in 1..inp.n :
       inp.outcome[i] = "ok" =>
         pl.tstat[i] = "done" /\ pl.results[i] = inp.value[i]
  /\ InFlight(pl) = {i \in 1..inp.n : inp.outcome[i] = "hang"}
  /\ Cardinality({w \in DOMAIN pl.widx : pl.widx[w] # 0}) = 1

\* C6: with concurrency >= 2 and exactly one task that never completes, every
\* other task is eventually started and its result stored, only the worker
\* that claimed the hung task stays blocked, and the call never settles.
C6_HangStallsOneWorker ==
  /\ HangCase => <>[]OthersStored
  /\ [](HangCase => pl.status \in {"idle", "pending"})

C6_Witness ==
  /\ HangCase
  /\ inp.n >= 3
  /\ inp.outcome[1] = "hang"
  /\ OthersStored
  /\ pl.status = "pending"

\* ------------------------------------------------------------------------
\* Properties of the summary cache
\* ------------------------------------------------------------------------

\* The call c has returned, it was the only call running on its path, no
\* file event hit the path while it ran, and the call before it on the same
\* path returned undisturbed too.
SecondOfTwo(c) ==
  /\ calls[c].pc = "done"
  /\ calls[c].solo
  /\ ~calls[c].dirty
  /\ calls[c].prev.kind = "ret"

\* C7 as claimed: the second of two calls with no modification of the file
\* in between returns what the first returned and takes the cache-hit branch.
C7_SecondCallHits ==
  \A c \in Calls :
    (SecondOfTwo(c) /\ ~calls[c].prev.modified) =>
      /\ calls[c].result = calls[c].prev.result
      /\ calls[c].branch = "hit"

\* C7 amended: when the first call returned a summary, the second call
\* returns the same summary through the cache-hit branch (stat only, no
\* traversal); when the first call returned null nothing was cached and the
\* second call does not take the cache-hit branch.
C7_SecondCallHitsIfSummary ==
  \A c \in Calls :
    (SecondOfTwo(c) /\ ~calls[c].prev.modified) =>
      /\ calls[c].prev.result # Null =>
           /\ calls[c].result = calls[c].prev.result
           /\ calls[c].branch = "hit"
      /\ calls[c].prev.result = Null => calls[c].branch # "hit"

C7_Witness ==
  \E c \in Calls :
    /\ SecondOfTwo(c)
    /\ ~calls[c].prev.modified
    /\ calls[c].prev.result # Null
    /\ calls[c].branch = "hit"
    /\ ~fs[calls[c].path].readable

\* The step in which the call c returns.
Returns(c) == calls[c].pc # "done" /\ calls'[c].pc = "done"

\* The file of c was modified after the previous call on it returned, it is
\* there and readable, and nothing disturbs c.
ModifiedBetween(c) ==
  /\ calls[c].solo
  /\ ~calls[c].dirty
  /\ calls[c].prev.kind = "ret"
  /\ calls[c].prev.modified
  /\ fs[calls[c].path].exists
  /\ fs[calls[c].path].readable

\* C8 as claimed: after a modification between two calls the second call
\* recomputes, returns the summary of the new content, and the cache entry
\* then holds that summary with the new mtime.
C8_ModifiedIsRecomputed ==
  [][\A c \in Calls :
       (Returns(c) /\ ModifiedBetween(c)) =>
         LET p == calls[c].path IN
         /\ calls'[c].branch = "miss"
         /\ calls'[c].result = getSessionSummary(p, fs[p].content)
         /\ cache'[p] = [summary |-> calls'[c].result,
                         mtime |-> fs[p].mtime]]_vars

\* C8 amended: the second call recomputes and returns the summary of the
\* new content; when that summary is not null the cache entry then holds it
\* with the new mtime, and when the new content has no user/assistant entry
\* the call returns null and the path has no cache entry.
C8_ModifiedIsRecomputedOrEvicted ==
  [][\A c \in Calls :
       (Returns(c) /\ ModifiedBetween(c)) =>
         LET p == calls[c].path IN
         /\ calls'[c].branch = "miss"
         /\ calls'[c].result = getSessionSummary(p, fs[p].content)
         /\ calls'[c].result # Null =>
              cache'[p] = [summary |-> calls'[c].result,
                           mtime |-> fs[p].mtime]
         /\ calls'[c].result = Null => cache'[p] = NoEntry]_vars

C8_Witness ==
  \E c \in Calls :
    /\ SecondOfTwo(c)
    /\ calls[c].prev.modified
    /\ calls[c].prev.result # Null
    /\ calls[c].branch = "miss"
    /\ calls[c].result # Null
    /\ calls[c].result # calls[c].prev.result
    /\ cache[calls[c].path] # NoEntry
    /\ cache[calls[c].path].summary = calls[c].result

\* The stat of the call c has failed, or its read has.
StatFailed(c) == calls[c].pc = "statted" /\ calls[c].pending = "error"
ReadFails(c) ==
  calls[c].pc = "read" /\ calls[c].pending \in {"nofile", "raised"}

\* C9: no call raises; a call whose stat or read fails returns null, and
\* when it returns its path has no cache entry while the entries of the
\* other paths are what they were.
C9_FailureReturnsNullAndEvicts ==
  [][\A c \in Calls :
       /\ calls'[c].result # Thrown
       /\ ((StatFailed(c) \/ ReadFails(c)) /\ calls'[c].pc # calls[c].pc) =>
            /\ calls'[c].pc = "done"
            /\ calls'[c].result = Null
            /\ cache'[calls[c].path] = NoEntry
            /\ \A q \in Paths \ {calls[c].path} : cache'[q] = cache[q]]_vars

C9_Witness ==
  \E c \in Calls :
    /\ calls[c].pc = "done"
    /\ calls[c].branch = "caught"
    /\ calls[c].prev.kind = "ret"
    /\ calls[c].prev.result # Null
    /\ cache[calls[c].path] = NoEntry

\* ------------------------------------------------------------------------
\* Properties of the parsers
\* ------------------------------------------------------------------------
\* Every tool use of every message has the result of the last user line
\* of the file that carries one for it.
BackfilledFrom(messages, lines) ==
  \A m \in 1..Len(messages) :
    \A k \in 1..Len(messages[m].toolUseBlocks) :
      LET X == messages[m].toolUseBlocks[k].id IN
      X \in DOMAIN PendingToolResults(lines) =>
        /\ X \in DOMAIN messages[m].toolResults
        /\ messages[m].toolResults[X] = PendingToolResults(lines)[X]

\* C11: tool-result backfill: after a full parse of a transcript, primary
\* or subagent, every retained message with a tool_use block of id X has
\* toolResults[X] equal to the tool_result block of the last user line that
\* carries one for X, wherever that line stands in the file.
C11_ToolResultBackfill ==
  /\ ("session" \in prs.done /\ prs.parsed.session # Null) =>
       BackfilledFrom(prs.parsed.session.messages, prs.lines)
  /\ "subagent" \in prs.done => BackfilledFrom(prs.messages, prs.lines)

C11_Witness ==
  /\ prs.done = {"session", "subagent", "summary"}
  /\ prs.lines = << ResultA, ResultB, TaskUse >>
  /\ prs.parsed.session # Null
  /\ Len(prs.parsed.session.messages) = 1
  /\ prs.parsed.session.messages[1].toolResults["t1"] =
       ToolResultBlock("t1", << "b" >>)
  /\ prs.messages = prs.parsed.session.messages

NonEmptyMessage(msg) ==
  \/ msg.textContent # << >>
  \/ Len(msg.thinkingBlocks) > 0
  \/ Len(msg.toolUseBlocks) > 0

\* C12: non-empty-message filter: every message of a parsed session and of
\* a parsed subagent file has non-empty text, or a thinking block, or a
\* tool-use block; a user entry with empty string content is never one.
C12_NonEmptyMessages ==
  /\ ("session" \in prs.done /\ prs.parsed.session # Null) =>
       \A m \in 1..Len(prs.parsed.session.messages) :
         NonEmptyMessage(prs.parsed.session.messages[m])
  /\ "subagent" \in prs.done =>
       \A m \in 1..Len(prs.messages) : NonEmptyMessage(prs.messages[m])

C12_Witness ==
  /\ {"session", "subagent"} \subseteq prs.done
  /\ prs.lines = << EmptyUser, Thought, ResultA >>
  /\ prs.parsed.session # Null
  /\ Len(prs.parsed.session.messages) = 1
  /\ Len(prs.messages) = 1

\* The line is not valid JSON, or its value has none of the four type tags.
Skipped(line) ==
  \/ line.json # "object"
  \/ line.type \notin {"user", "assistant", "progress", "file-history-snapshot"}

WithoutSkipped(lines) == SelectSeq(lines, LAMBDA line : ~Skipped(line))

\* C13: a line that is not valid JSON or has none of the four type tags
\* never aborts the parse: session, agentLinks and summary are those of the
\* same file without these lines.
C13_BadLinesAreSkipped ==
  /\ "session" \in prs.done =>
       prs.parsed =
         parseSessionFileWithAgentLinks(SessionFile, WithoutSkipped(prs.lines))
  /\ "summary" \in prs.done =>
       prs.summary = getSessionSummary(SessionFile, WithoutSkipped(prs.lines))

C13_Witness ==
  /\ {"session", "summary"} \subseteq prs.done
  /\ Len(prs.lines) = 3
  /\ prs.lines[1] \in {BrokenLine, NullLine}
  /\ prs.lines[2] = OtherEntry
  /\ prs.lines[3] = UserMsg(5)
  /\ prs.parsed.session # Null
  /\ prs.summary # Null
  /\ prs.summary.messageCount = 1

\* Every line is an entry with one of the four type tags.
WellFormed(lines) == \A i \in 1..Len(lines) : ~Skipped(lines[i])

UserOrAssistant(lines) ==
  {i \in 1..Len(lines) :
     isUserMessage(lines[i]) \/ isAssistantMessage(lines[i])}

\* C14: for a well-formed transcript with at least one user or assistant
\* entry, the summary's messageCount is the number of user and assistant
\* entries of the file; progress and snapshot entries are not counted.
C14_MessageCount ==
  ("summary" \in prs.done /\ WellFormed(prs.lines)
     /\ UserOrAssistant(prs.lines) # {}) =>
    /\ prs.summary # Null
    /\ prs.summary.messageCount = Cardinality(UserOrAssistant(prs.lines))

C14_Witness ==
  /\ "summary" \in prs.done
  /\ prs.lines = << Progress, EmptyUser, TaskUse >>
  /\ prs.summary # Null
  /\ prs.summary.messageCount = 2

\* ------------------------------------------------------------------------
\* Properties of getSession
\* ------------------------------------------------------------------------
\* The call has returned a session.
Returned == sess.pc = "done" /\ sess.result # Thrown /\ sess.result # Null

\* C15: subagent attachment: an agent id is a key of session.subagents only
\* if the primary transcript has a progress entry naming it with a parent
\* tool-use id and its file yields at least one retained message; the
\* entry's parentToolUseId is the one recorded in agentLinks and its
\* messageCount is the length of its messages.
C15_SubagentAttachment ==
  Returned =>
    \A k \in 1..Len(sess.result.subagents) :
      LET sub == sess.result.subagents[k] IN
      /\ sub.agentId \in DOMAIN AgentLinks(sess.primary)
      /\ sub.parentToolUseId = AgentLinks(sess.primary)[sub.agentId]
      /\ Len(sub.messages) >= 1
      /\ sub.messageCount = Len(sub.messages)

\* C16: after getSession, a tool-use block named Task carries the agent id
\* of the first subagent, in the order of the subagents mapping, whose
\* parentToolUseId is the block's id, and no agent id when there is none; a
\* block of another name carries no agent id.
C16_TaskBlocksStamped ==
  Returned =>
    LET subagents == sess.result.subagents
        messages == sess.result.session.messages
    IN  \A m \in 1..Len(messages) :
          \A k \in 1..Len(messages[m].toolUseBlocks) :
            LET toolUse == messages[m].toolUseBlocks[k]
                match == {j \in 1..Len(subagents) :
                            subagents[j].parentToolUseId = toolUse.id}
            IN  IF toolUse.name = "Task" /\ match # {}
                THEN toolUse.agentId = subagents[MinOf(match)].agentId
                ELSE toolUse.agentId = ""

C16_Witness ==
  /\ Returned
  /\ sess.primary = TwoAgentsTranscript
  /\ Len(sess.result.subagents) = 2
  /\ sess.result.subagents[1].agentId = "x"
  /\ sess.result.subagents[2].agentId = "y"
  /\ sess.result.subagents[2].parentToolUseId = "t1"
  /\ sess.result.session.messages[1].toolUseBlocks[1].agentId = "x"
  /\ sess.result.session.messages[1].toolUseBlocks[2].agentId = ""

\* C20: a parse in which no message survives the filter yields no session,
\* so getSession returns null for such a file although every line is valid
\* JSON; a session that is returned has at least one message.
C20_NoEmptySession ==
  (sess.pc = "done" /\ sess.result # Thrown) =>
    /\ RetainedMessages(sess.primary) = << >> => sess.result = Null
    /\ sess.result # Null => Len(sess.result.session.messages) >= 1

C20_Witness ==
  /\ sess.pc = "done"
  /\ sess.result = Null
  /\ sess.primary = BlankTranscript
  /\ \A i \in 1..Len(sess.primary) : sess.primary[i].json = "object"

\* ------------------------------------------------------------------------
\* Properties of decodeProjectPath
\* ------------------------------------------------------------------------
\* The naive encoding of a path: every separator becomes a dash.
NaiveEncode(path) ==
  [i \in 1..Len(path) |-> IF path[i] = "/" THEN "-" ELSE path[i]]

\* C17: path decoding round trip: for every existing directory P none of
\* whose segments contains a dash, decodeProjectPath of the naive encoding
\* of P is P.
C17_RoundTrip ==
  pth.pc = "done" =>
    \A P \in pth.dirs :
      ((\A i \in 1..Len(P) : P[i] # "-") /\ NaiveEncode(P) = pth.encoded) =>
        pth.result = P

C17_Witness ==
  /\ pth.pc = "done"
  /\ pth.encoded = << "-", "a", "-", "b" >>
  /\ << "/", "a", "/", "b" >> \in pth.dirs
  /\ << "/", "a", "-", "b" >> \in pth.dirs
  /\ pth.result = << "/", "a", "/", "b" >>

\* The regroupings of the segments that name an existing path.
ExistingRegroupings(dirs, segments) ==
  {g \in Gaps(segments) : existsSync(dirs, Regroup(segments, g))}

\* g is tried before h by a search that tries a separator before a merge at
\* each position.
TriedBefore(g, h) ==
  \E i \in DOMAIN g :
    /\ g[i] = "/" /\ h[i] = "-"
    /\ \A j \in 1..(i - 1) : g[j] = h[j]

\* C18: ambiguous path decoding: for an encoded name that starts with a
\* dash and whose naive decoding does not exist, decodeProjectPath returns
\* the first existing regrouping of the segments in the order of a search
\* that tries a separator before a merge at each position, and the naive
\* decoding when no regrouping exists.
C18_FirstExistingRegrouping ==
  LET segments == Split(Tail(pth.encoded), "-")
      naive == Regroup(segments, [i \in 1..(Len(segments) - 1) |-> "/"])
      E == ExistingRegroupings(pth.dirs, segments)
  IN  (pth.pc = "done" /\ startsWith(pth.encoded, "-")
         /\ ~existsSync(pth.dirs, naive)) =>
        IF E # {}
        THEN LET g == CHOOSE g \in E : \A h \in E \ {g} : TriedBefore(g, h)
             IN  /\ pth.result = Normalize(Regroup(segments, g))
                 /\ existsSync(pth.dirs, pth.result)
        ELSE pth.result = naive

C18_Witness ==
  /\ pth.pc = "done"
  /\ pth.encoded = << "-", "a", "-", "b", "-", "a" >>
  /\ << "/", "a", "/", "b" >> \in pth.dirs
  /\ << "/", "a", "/", "b", "/", "a" >> \notin pth.dirs
  /\ << "/", "a", "/", "b", "-", "a" >> \in pth.dirs
  /\ pth.result = << "/", "a", "/", "b", "-", "a" >>

\* ------------------------------------------------------------------------
\* Properties of getAllSessions
\* ------------------------------------------------------------------------
\* The startTime, missing counted as 0, of the k-th session of a group.
StartOf(group, k) ==
  FileStart(CHOOSE p \in 1..Len(ProjectDirs) :
              ProjectDirs[p] = group.projectEncoded,
            group.sessions[k])

\* C19: the result of getAllSessions() has no group without sessions; the
\* sessions of every group are in non-increasing order of startTime, a
\* missing startTime counted as 0; and the groups are in non-increasing
\* order of the startTime of their first session.
C19_GroupsSorted ==
  gas.phase = "done" =>
    \A j \in 1..Len(gas.groups) :
      /\ Len(gas.groups[j].sessions) >= 1
      /\ \A k \in 1..(Len(gas.groups[j].sessions) - 1) :
           StartOf(gas.groups[j], k) >= StartOf(gas.groups[j], k + 1)
      /\ j < Len(gas.groups) =>
           StartOf(gas.groups[j], 1) >= StartOf(gas.groups[j + 1], 1)

C19_Witness ==
  /\ gas.phase = "done"
  /\ Len(gas.groups) = 2
  /\ gas.groups[1].projectEncoded = "-b"
  /\ gas.groups[1].sessions = << 3, 1, 2 >>
  /\ gas.groups[2].projectEncoded = "-a"
  /\ StartOf(gas.groups[1], 3) = 0

\* C21: for a project directory whose only file is a transcript with a user
\* message, an assistant message with a tool_use block t1 and then a user
\* message holding only the tool_result for t1, getSession returns exactly
\* two messages: the result-only user entry is no message, its tool_result
\* is attached to the assistant message, and subagents is empty.
C21_ResultOnlyEntryScenario ==
  (Returned /\ sess.primary = BashTranscript /\ sess.listed = << >>) =>
    LET messages == sess.result.session.messages IN
    /\ Len(messages) = 2
    /\ messages[1].role = "user"
    /\ messages[1].textContent = Hello
    /\ messages[2].role = "assistant"
    /\ messages[2].toolUseBlocks[1].id = "t1"
    /\ DOMAIN messages[2].toolResults = {"t1"}
    /\ messages[2].toolResults["t1"] = ToolResultBlock("t1", Hello)
    /\ sess.result.subagents = << >>

C21_Witness ==
  /\ Returned
  /\ sess.primary = BashTranscript
  /\ sess.listed = << >>
  /\ Len(sess.result.session.messages) = 2
  /\ sess.result.session.messages[2].toolResults["t1"] =
       ToolResultBlock("t1", Hello)
  /\ sess.result.subagents = << >>

\* ------------------------------------------------------------------------
\* Properties of listSessionFiles and of projectEncoded
\* ------------------------------------------------------------------------

\* The names of EntryOrder that are transcripts of a session, by hand.
SessionNames == {AbcJsonl, BareJsonl, AgentJsonl}
ListedDir == << "/", "h", "/", ".", "c", "l", "a", "u", "d", "e", "/" >>
             \o Projects \o << "/", "-", "a" >>

\* C22: listSessionFiles returns exactly the entries of the project
\* directory whose name ends with .jsonl and does not start with agent-, in
\* the order of the directory, and the empty sequence when the directory
\* cannot be accessed or read.
C22_SessionFilesOnly ==
  lst.pc = "done" =>
    LET kept == SelectSeq(lst.entries, LAMBDA name : name \in SessionNames)
    IN  IF lst.failed THEN lst.result = << >>
        ELSE lst.result =
               [i \in DOMAIN kept |-> ListedDir \o << "/" >> \o kept[i]]

\* The directory of the example: abc.jsonl and agent-x.jsonl.
C22_Witness ==
  /\ lst.pc = "done"
  /\ ~lst.failed
  /\ lst.entries = << AbcJsonl, AgentXJsonl >>
  /\ lst.result = << ListedDir \o << "/" >> \o AbcJsonl >>

\* C26: for a transcript at <root>/projects/<enc>/<id>.jsonl the
\* projectEncoded of the parsed session and of the summary is <enc>, the
\* projectEncoded of the group getAllSessions lists it under, for every
\* root, a root with a segment named projects included.
C26_ProjectEncodedIsDirectory ==
  loc.done = {"group", "summary", "session"} =>
    /\ loc.group = loc.encoded
    /\ loc.summary = loc.encoded
    /\ loc.session = loc.encoded

\* ------------------------------------------------------------------------
\* Properties of the fields of sessions and summaries
\* ------------------------------------------------------------------------

\* The user and assistant entries of a file, in file order.
Entries(lines) ==
  SelectSeq(lines, LAMBDA line :
    line.json = "object" /\ line.type \in {"user", "assistant"})

\* The text of an entry: a string as it is, the text blocks joined by a
\* newline (the tool results, thinking and tool-use blocks have none).
TextOf(entry) ==
  IF entry.content.isString THEN entry.content.text
  ELSE LET texts == SelectSeq(entry.content.blocks,
                              LAMBDA b : b.type = "text")
       IN  IF Len(texts) = 0 THEN << >>
           ELSE IF Len(texts) = 1 THEN texts[1].text
           ELSE IF Len(texts) = 2
                THEN texts[1].text \o << "\n" >> \o texts[2].text
           ELSE << "?" >>

\* The user entries that have a message payload, in file order.
UserEntries(lines) ==
  SelectSeq(lines, LAMBDA line :
    line.json = "object" /\ line.type = "user" /\ line.message)

FirstChars(text) ==
  IF Len(text) <= 200 THEN text ELSE [i \in 1..200 |-> text[i]]

\* C23: summary.firstMessage is the first 200 characters of the text of the
\* first user entry of the file, also when that entry has empty text.
C23_FirstMessageOfFirstUser ==
  ("summary" \in prs.done /\ prs.summary # Null) =>
    prs.summary.firstMessage =
      IF UserEntries(prs.lines) = << >> THEN << >>
      ELSE FirstChars(TextOf(UserEntries(prs.lines)[1]))

\* C24: cwd, version and gitBranch of a parsed session are those of the
\* first user or assistant entry of the file (a missing gitBranch is null);
\* no later entry changes them.
C24_MetadataOfFirstEntry ==
  ("session" \in prs.done /\ prs.parsed.session # Null) =>
    LET first == Entries(prs.lines)[1]
        session == prs.parsed.session
    IN  /\ session.cwd = first.cwd
        /\ session.version = first.version
        /\ session.gitBranch =
             IF first.gitBranch = "" THEN NoString ELSE first.gitBranch

\* A session whose later entries carry other metadata than the first.
C24_Witness ==
  /\ "session" \in prs.done
  /\ prs.parsed.session # Null
  /\ prs.lines = << SecondUser, FirstUser, Reply >>
  /\ prs.parsed.session.cwd = "/b"
  /\ prs.parsed.session.version = "2"
  /\ prs.parsed.session.gitBranch = NoString

\* The timestamps of the user and assistant entries that have one.
Dated(lines) ==
  {Entries(lines)[i].ts : i \in DOMAIN Entries(lines)} \ {NaN}
Earliest(lines) == IF Dated(lines) = {} THEN NoTime ELSE MinOf(Dated(lines))
Latest(lines) == IF Dated(lines) = {} THEN NoTime ELSE MaxOf(Dated(lines))

\* C25: startTime and endTime of a parsed session and of a summary are the
\* minimum and the maximum of the timestamps of all user and assistant
\* entries, so startTime <= endTime, and both are null exactly when no
\* entry has a timestamp.
C25_MinMaxTimestamps ==
  /\ ("session" \in prs.done /\ prs.parsed.session # Null) =>
       /\ prs.parsed.session.startTime = Earliest(prs.lines)
       /\ prs.parsed.session.endTime = Latest(prs.lines)
  /\ ("summary" \in prs.done /\ prs.summary # Null) =>
       /\ prs.summary.startTime = Earliest(prs.lines)
       /\ prs.summary.endTime = Latest(prs.lines)

\* C28: when getSessionSummary returns a summary for a transcript, so that
\* getAllSessions lists it, the parse of the same transcript returns a
\* session, which is when getSession returns one.
C28_ListedSessionsOpen ==
  ({"session", "summary"} \subseteq prs.done /\ prs.summary # Null) =>
    prs.parsed.session # Null

\* Line i is a user or assistant entry without message payload: processing
\* it raises in the parser, and in the summary traversal unless firstMessage
\* (for a user) or model (for an assistant) is already set.
RaisesInSession(lines, i) ==
  lines[i].type \in {"user", "assistant"} /\ ~lines[i].message
RaisesInSummary(lines, i) ==
  LET before == SummaryLoop(SubSeq(lines, 1, i - 1), 1, SummaryStart)
  IN  /\ ~lines[i].message
      /\ \/ lines[i].type = "user" /\ before.firstMessage = << >>
         \/ lines[i].type = "assistant" /\ before.model = NoString
Without(lines, i) == SubSeq(lines, 1, i - 1) \o SubSeq(lines, i + 1, Len(lines))

SameSessionState(a, b) ==
  IF a = Null \/ b = Null THEN a = b
  ELSE /\ a.cwd = b.cwd
       /\ a.version = b.version
       /\ a.gitBranch = b.gitBranch
       /\ a.startTime = b.startTime
       /\ a.endTime = b.endTime
SameSummaryState(a, b) ==
  IF a = Null \/ b = Null THEN a = b
  ELSE /\ a.messageCount = b.messageCount
       /\ a.gitBranch = b.gitBranch
       /\ a.startTime = b.startTime
       /\ a.endTime = b.endTime

\* C29: a user or assistant entry whose processing raises has no effect:
\* cwd, version, gitBranch, startTime and endTime of the session, and
\* messageCount, gitBranch, startTime and endTime of the summary, are those
\* of the file without that line.
C29_RaisingEntryHasNoEffect ==
  \A i \in DOMAIN prs.lines :
    /\ ("session" \in prs.done /\ RaisesInSession(prs.lines, i)) =>
         SameSessionState(
           prs.parsed.session,
           parseSessionFileWithAgentLinks(
             SessionFile, Without(prs.lines, i)).session)
    /\ ("summary" \in prs.done /\ RaisesInSummary(prs.lines, i)) =>
         SameSummaryState(
           prs.summary,
           getSessionSummary(SessionFile, Without(prs.lines, i)))

\* ------------------------------------------------------------------------
\* Coherence of the summary cache
\* ------------------------------------------------------------------------

AllSucceed == \A i \in 1..inp.n : inp.outcome[i] = "ok"

AllWritten ==
  /\ pl.status = "resolved"
  /\ pl.n = inp.n
  /\ \A i \in 1..inp.n : pl.writes[i] >= 1 /\ pl.results[i] = inp.value[i]

\* C30: for any number of tasks, zero included, and any concurrency >= 1,
\* when every task completes successfully the call eventually resolves, and
\* when it has resolved every result slot has been written.
C30_ResolvesWithAllSlots ==
  /\ AllSucceed => <>AllWritten
  /\ [](AllSucceed /\ pl.status = "resolved" => AllWritten)

\* A resolved call of more tasks than workers, and one of no task.
C30_Witness ==
  /\ AllSucceed
  /\ AllWritten
  /\ inp.n > inp.concurrency

====
